---- MODULE Spec2Model ----
(***************************************************************************)
(* Task registry, failure queue, modal protocol and polling loop of        *)
(* ElementMonitor (src/№ё111.py).                                          *)
(*                                                                         *)
(* The browser, the page and the stores are the environment: every call    *)
(* into them is a nondeterministic choice over the outcomes the code       *)
(* handles (a modal that opens or not, a stale element, zero or more       *)
(* photos, a save or a send that fails, an unexpected error).              *)
(*                                                                         *)
(* Time is counted in ticks of TickSeconds seconds.  Counters of           *)
(* self.stats that no decision reads and that the properties below do not  *)
(* mention (tasks_found, photo and messaging counters) are not tracked.    *)
(***************************************************************************)
EXTENDS Integers, Sequences, FiniteSets, TLC

VARIABLES
    pc,               \* position of monitor_tasks: idle, discover, sweep, report, sleep, stopped
    check_count,      \* monitor_tasks local check_count (= stats['total_checks'])
    tasks,            \* result of find_all_tasks() in the current check
    idx,              \* loop index into tasks (discovery) or into sweep_items (sweep)
    processed_tasks,  \* self.processed_tasks
    failed_tasks,     \* self.failed_tasks, in dict (insertion) order
    stats,            \* self.stats (tracked counters)
    now,              \* time.time(), in ticks
    last_report_time, \* self.last_report_time, in ticks
    sweep_items,      \* retry_failed_tasks: list(self.failed_tasks.items())
    sweep_time,       \* retry_failed_tasks: current_time
    tasks_to_remove,  \* retry_failed_tasks: tasks_to_remove
    last,             \* what the step just taken did, when it was a process_task call or a discovery skip
    success_count,    \* history: per key, how often process_task reached line 1242
    dropped,          \* history: keys removed from failed_tasks by a sweep as permanently failed
    m_outcomes,       \* open_task_modal under test: outcome of each attempt
    m_retries,        \* open_task_modal under test: the retries argument
    m_result,         \* open_task_modal under test: what the call returned and did
    chat_ids,         \* self.chat_ids: chat key -> chat id, "" when not configured
    district,         \* get_target_chats under test: the district argument
    route,            \* get_target_chats under test: what the call returned
    address_district_map, \* GoogleSheetManager.address_district_map, in dict order
    lookup_address,   \* get_district_by_address under test: the address argument
    lookup_result,    \* get_district_by_address under test: what the call returned
    bot_enabled,      \* self.telegram_bot.enabled
    stores,           \* what the spreadsheet, the CSV file and the JSON backup do with a write
    report_stats,     \* self.report_stats: per chat key, the number of recorded sends
    tg_last,          \* what the messaging step just taken did
    startup,          \* main() and start_monitoring(): what each step meets, and how far the run got
    extract,          \* extract_task_data under test: the page it reads, and what the call returned
    persist,          \* save_task_data and the send under test: what they meet, and what was written and sent
    psend             \* send_photos_with_caption_to_chat under test: the photos, the mode, and what was delivered

vars == <<pc, check_count, tasks, idx, processed_tasks, failed_tasks, stats, now,
          last_report_time, sweep_items, sweep_time, tasks_to_remove, last,
          success_count, dropped, m_outcomes, m_retries, m_result,
          chat_ids, district, route, address_district_map, lookup_address,
          lookup_result, bot_enabled, stores, report_stats, tg_last, startup, extract,
          persist, psend>>

registry_vars == <<pc, check_count, tasks, idx, processed_tasks, failed_tasks, stats, now,
                   last_report_time, sweep_items, sweep_time, tasks_to_remove, last,
                   success_count, dropped>>

modal_vars == <<m_outcomes, m_retries, m_result>>

router_vars == <<chat_ids, district, route>>

(* what the polling loop leaves alone: the variables of the functions checked on their own *)
lookup_vars == <<address_district_map, lookup_address, lookup_result>>

report_vars == <<bot_enabled, stores, report_stats, tg_last>>

startup_vars == <<startup>>

extract_vars == <<extract>>

tail_vars == <<persist, psend>>

unit_vars == <<modal_vars, router_vars, lookup_vars, report_vars, startup_vars, extract_vars, tail_vars>>

----------------------------------------------------------------------------
(* Bounds of the model: checks per run, clock ticks, unexpected errors,     *)
(* increments of tasks_failed_permanent, the largest retries argument tried *)
(* on open_task_modal, the length of a clock tick in seconds, and the       *)
(* number of pieces of text in a district or an address, and the number of  *)
(* rows of the lookup sheet, and the sends one report accumulator records   *)

MaxChecks == 3

MaxIdentityChecks == 2

MaxTime == 1

MaxErrors == 1

MaxPermanent == 1

MaxModalRetries == 3

MaxWords == 2

MaxRows == 2

MaxRecorded == 2

TickSeconds == 10800

(* Program constants: MAX_RETRY_ATTEMPTS and REPORT_INTERVAL_HOURS at their  *)
(* defaults, the default of open_task_modal's retries, the staleness window *)
(* and the reload period of monitor_tasks                                    *)

max_retry_attempts == 3

DefaultModalRetries == 3

StaleSeconds == 3600

ReloadPeriod == 5

report_interval_hours == 3


----------------------------------------------------------------------------
(* The page: the tasks the dashboard can show, in DOM order.  Task 2 and   *)
(* task 3 are two tasks with the same address text and no parsable id;     *)
(* task 4 has the address of task 1 and an id of its own.                  *)

NoneId == "None"

Universe ==
    << [tid |-> 1, task_id |-> "101", address |-> "A"],
       [tid |-> 2, task_id |-> NoneId, address |-> "B"],
       [tid |-> 3, task_id |-> NoneId, address |-> "B"],
       [tid |-> 4, task_id |-> "102", address |-> "A"] >>

(* hash(address): Python's string hash, a number that depends on the text only *)
Hash(address) ==
    CASE address = "A" -> 7001
      [] address = "B" -> 7002
      [] OTHER -> 7000

TaskKey_AddressOnly(task_id, address) == <<NoneId, Hash(address)>>

(* task_key = f"{task_id}_{hash(address)}" *)
TaskKey(task_id, address) == <<task_id, Hash(address)>>

Keys == {TaskKey(Universe[i].task_id, Universe[i].address) : i \in 1..Len(Universe)}

(* what the page may show when it is searched: nothing, the task with an id, *)
(* the two tasks that share an address                                       *)
Pages == {{}, {1}, {2, 3}}

(* pages on which two tasks share an address: without ids, and with an id each *)
IdentityPages == {{2, 3}, {1, 4}}

(* what the page may show when find_task_by_id searches it *)
ResolvePages == Pages \cup IdentityPages

(* A WebElement reference: the task it was resolved for, and whether a click *)
(* on it has already raised StaleElementReferenceException.  The page may   *)
(* re-render at any time, so a reference that has not raised yet may or may *)
(* not be stale when it is used next; one that has raised stays stale.      *)
NoElement == [tid |-> 0, raised |-> FALSE]

is_displayed_MayForget(element) == {"ok", "stale"}

(* element.is_displayed(): what the call can do, "stale" being the raise of *)
(* StaleElementReferenceException                                          *)
is_displayed(element) == IF element.raised THEN {"stale"} ELSE {"ok", "stale"}

(* find_all_tasks(): the visible tasks in DOM order, each with its element *)
find_all_tasks(visible) ==
    LET shown == SelectSeq(Universe, LAMBDA t : t.tid \in visible)
    IN  [i \in 1..Len(shown) |->
            [element |-> [tid |-> shown[i].tid, raised |-> FALSE],
             address |-> shown[i].address,
             task_id |-> shown[i].task_id]]

----------------------------------------------------------------------------
(* self.failed_tasks: a dict, kept as the sequence of its items *)

FailedKeys(f) == {f[i].key : i \in 1..Len(f)}

FailedIndex(f, k) == CHOOSE i \in 1..Len(f) : f[i].key = k

FailedGet(f, k) == f[FailedIndex(f, k)]

(* self.failed_tasks.get(task_key, {}).get('attempts', 0) *)
FailedAttempts(f, k) == IF k \in FailedKeys(f) THEN FailedGet(f, k).attempts ELSE 0

(* self.failed_tasks[task_key] = {...}: in place when the key exists, else appended *)
FailedPut(f, k, attempts, last_seen, task_info) ==
    LET item == [key |-> k, attempts |-> attempts, last_seen |-> last_seen,
                 task_info |-> task_info]
    IN  IF k \in FailedKeys(f)
        THEN [f EXCEPT ![FailedIndex(f, k)] = item]
        ELSE Append(f, item)

(* if key in self.failed_tasks: del self.failed_tasks[key] *)
FailedDel(f, k) == SelectSeq(f, LAMBDA it : it.key # k)

RECURSIVE FailedDelAll(_, _)
FailedDelAll(f, ks) ==
    IF ks = <<>> THEN f ELSE FailedDelAll(FailedDel(f, Head(ks)), Tail(ks))

----------------------------------------------------------------------------
(* open_task_modal(task_element, retries).  outcomes[i] is what attempt i  *)
(* meets: "open" (an indicator appears), "timeout" (none appears),         *)
(* "stale" (click raises StaleElementReferenceException), "error" (any     *)
(* other exception).  The result records the return value, the number of   *)
(* clicks, the number of press_esc_to_close_modal calls, and the clicks    *)
(* and closes in the order they are issued.                                *)

Outcomes == {"open", "timeout", "stale", "error"}

ClosesAfter_NotWhenStale(outcome) == IF outcome = "stale" THEN 0 ELSE 1

(* press_esc_to_close_modal calls of the branch that handles a failed attempt: *)
(* after the selector loop (line 702), in "except StaleElementReferenceException" *)
(* (line 709), in "except Exception" (line 713)                                *)
ClosesAfter(outcome) ==
    CASE outcome = "timeout" -> 1
      [] outcome = "stale" -> 1
      [] outcome = "error" -> 1
      [] OTHER -> 0

Repeat(event, n) == [i \in 1..n |-> event]

RECURSIVE ModalLoop(_, _, _, _)
ModalLoop(outcomes, retries, attempt, closes) ==
    IF attempt >= retries
    THEN [ret |-> FALSE, clicks |-> attempt, closes |-> closes, log |-> <<>>]
    ELSE IF outcomes[attempt + 1] = "open"
         THEN [ret |-> TRUE, clicks |-> attempt + 1, closes |-> closes,
               log |-> <<"click">>]
         ELSE LET esc == ClosesAfter(outcomes[attempt + 1])
                  rest == ModalLoop(outcomes, retries, attempt + 1, closes + esc)
              IN  [rest EXCEPT !.log = <<"click">> \o Repeat("close", esc) \o @]

open_task_modal_NoRetry(outcomes, retries) ==
    ModalLoop(outcomes, IF retries > 1 THEN 1 ELSE retries, 0, 0)

open_task_modal(outcomes, retries) == ModalLoop(outcomes, retries, 0, 0)

----------------------------------------------------------------------------
(* process_task(task_info, is_retry).  env is what the environment does    *)
(* during the call: opens (outcome of each modal attempt), photos (number  *)
(* of photos extract_task_data returns), save (save_task_data's result),   *)
(* err (an unexpected exception raised inside the try block once the modal *)
(* is open).                                                               *)

(* the modal attempts a call of process_task may meet: a failed attempt and *)
(* then an open modal, three failed attempts during which the page         *)
(* re-renders, or a reference that is stale at the first click already     *)
OpenScripts ==
    { <<"timeout", "open", "timeout">>,
      <<"timeout", "error", "stale">>,
      <<"stale", "stale", "stale">> }

(* a click on a stale reference raises, and a stale reference stays stale *)
Physical(opens, element) ==
    /\ element.raised => opens[1] = "stale"
    /\ \A i, j \in 1..Len(opens) : (i < j /\ opens[i] = "stale") => opens[j] = "stale"

Envs ==
    LET all == [opens : OpenScripts, photos : 0..1,
                save : BOOLEAN, err : BOOLEAN]
        opened(e) == open_task_modal(e.opens, DefaultModalRetries)
        \* fields the call never reads hold a default, so each behaviour is listed once
        canonical(e) ==
            /\ ~opened(e).ret => ~e.err
            /\ (~opened(e).ret \/ e.err) => (e.photos = 0 /\ ~e.save)
    IN  {e \in all : canonical(e)}

(* what the environment can do during a call that clicks this reference *)
EnvsFor(element) == {e \in Envs : Physical(e.opens, element)}

(* one of the clicks of the call raised StaleElementReferenceException *)
MetStale(opens, clicks) == \E i \in 1..clicks : opens[i] = "stale"

PhotosOk_Always(photos) == photos >= 0

(* photos_ok = len(task_data.get('photos_data', [])) > 0 *)
PhotosOk(photos) == photos > 0

AddProcessed_Forget(processed, key) == processed

AddProcessed_Replace(processed, key) == {key}

(* self.processed_tasks.add(task_key) *)
AddProcessed(processed, key) == processed \cup {key}

RemoveOnSuccess_Keep(failed, key) == failed

(* if task_key in self.failed_tasks: del self.failed_tasks[task_key] *)
RemoveOnSuccess(failed, key) == FailedDel(failed, key)

(* the branch "not photos_ok and not is_retry": enqueue for a later retry *)
RecordFailure(failed, key, time, task_info) ==
    FailedPut(failed, key, FailedAttempts(failed, key) + 1, time, task_info)

ClosesOnExit_NotOnSaveFailure(path) ==
    IF path \in {"exception", "no_photos_retry", "no_photos_first", "success"} THEN 1 ELSE 0

(* press_esc_to_close_modal calls process_task makes itself on each way out: *)
(* lines 1192 and 1201 (none), 1268, 1215, 1225, 1230, 1240.  A             *)
(* KeyboardInterrupt is not an Exception: the handler of line 1264 does not *)
(* catch it, process_task has no finally, and the call is left at once.     *)
ClosesOnExit(path) ==
    CASE path = "already" -> 0
      [] path = "interrupted" -> 0
      [] path = "open_failed" -> 0
      [] path = "exception" -> 1
      [] path = "no_photos_retry" -> 1
      [] path = "no_photos_first" -> 1
      [] path = "save_failed" -> 1
      [] path = "success" -> 1
      [] OTHER -> 0

Observation(op, key, is_retry, path, ret, opened, env, element) ==
    [op |-> op, key |-> key, is_retry |-> is_retry, path |-> path, ret |-> ret,
     opened |-> opened.ret,
     clicks |-> opened.clicks,
     \* the reference the call was given, whether a click on it raised stale, and
     \* the state of the reference it replaced when it was re-resolved for the call
     element |-> IF element.raised THEN "raised" ELSE "resolved",
     met_stale |-> MetStale(env.opens, opened.clicks),
     replaced |-> "none",
     \* press_esc_to_close_modal calls: those of open_task_modal, plus those after it
     closes |-> opened.closes + ClosesOnExit(path),
     exit_closes |-> ClosesOnExit(path),
     photos |-> env.photos,
     saves |-> IF path \in {"save_failed", "success"} THEN 1 ELSE 0,
     sends |-> IF path = "success" THEN 1 ELSE 0]

NotOpened == [ret |-> FALSE, clicks |-> 0, closes |-> 0]

NoEnv == [opens |-> [i \in 1..DefaultModalRetries |-> "timeout"], photos |-> 0,
          save |-> FALSE, err |-> FALSE]

NoCall == Observation("none", <<NoneId, 0>>, FALSE, "none", FALSE, NotOpened, NoEnv, NoElement)

count_success_SkipRetries(st, is_retry) ==
    [st EXCEPT !.tasks_processed = IF is_retry THEN @ ELSE @ + 1,
               !.tasks_retried = IF is_retry THEN @ + 1 ELSE @]

(* self.stats['tasks_processed'] += 1; if is_retry: self.stats['tasks_retried'] += 1 *)
count_success(st, is_retry) ==
    [st EXCEPT !.tasks_processed = @ + 1,
               !.tasks_retried = IF is_retry THEN @ + 1 ELSE @]

(* The registry after the call and what the call did.  time is time.time(). *)
process_task(task_info, is_retry, env, processed, failed, st, time) ==
    LET task_key == TaskKey(task_info.task_id, task_info.address)
        opened == open_task_modal(env.opens, DefaultModalRetries)
        same(path, o) ==
            [processed |-> processed, failed |-> failed, stats |-> st, success |-> FALSE,
             obs |-> Observation("process_task", task_key, is_retry, path, FALSE, o, env,
                                 task_info.element)]
    IN  IF task_key \in processed
        THEN same("already", NotOpened)
        ELSE IF ~opened.ret
        THEN same("open_failed", opened)
        ELSE IF env.err
        THEN [same("exception", opened) EXCEPT !.stats.errors = @ + 1]
        ELSE IF ~PhotosOk(env.photos)
        THEN IF is_retry
             THEN [same("no_photos_retry", opened)
                       EXCEPT !.stats.tasks_failed_permanent = @ + 1]
             ELSE [same("no_photos_first", opened)
                       EXCEPT !.failed = RecordFailure(failed, task_key, time, task_info)]
        ELSE IF ~env.save
        THEN same("save_failed", opened)
        ELSE [processed |-> AddProcessed(processed, task_key),
              failed |-> RemoveOnSuccess(failed, task_key),
              stats |-> count_success(st, is_retry),
              success |-> TRUE,
              obs |-> Observation("process_task", task_key, is_retry, "success", TRUE,
                                  opened, env, task_info.element)]

----------------------------------------------------------------------------
(* State after ElementMonitor.__init__ and the first lines of monitor_tasks *)

NoStats == [tasks_processed |-> 0, tasks_retried |-> 0,
            tasks_failed_permanent |-> 0, errors |-> 0]

InitRegistry ==
    /\ pc = "idle"
    /\ check_count = 0
    /\ tasks = <<>>
    /\ idx = 1
    /\ processed_tasks = {}
    /\ failed_tasks = <<>>
    /\ stats = NoStats
    /\ now = 0
    /\ last_report_time = 0
    /\ sweep_items = <<>>
    /\ sweep_time = 0
    /\ tasks_to_remove = <<>>
    /\ last = NoCall
    /\ success_count = [k \in Keys |-> 0]
    /\ dropped = {}

ModalIdle ==
    /\ m_outcomes = [i \in 1..MaxModalRetries |-> "timeout"]
    /\ m_retries = 0
    /\ m_result = [done |-> TRUE, ret |-> FALSE, clicks |-> 0, closes |-> 0, log |-> <<>>]

----------------------------------------------------------------------------
(* get_target_chats(district).  A text is a sequence of pieces; "x in s" of *)
(* Python is the search of the pieces of x, in a row, in s.  The Cyrillic   *)
(* texts of the source are written in Latin letters.                        *)

ChatKeys == <<"podolsk", "chekhov", "south">>

ChatKeySet == {ChatKeys[i] : i \in 1..Len(ChatKeys)}

(* os.getenv('TELEGRAM_CHAT_...', ''): any text, the empty one when unset *)
ChatIdValues == {"", "-1001", "-1002", "-1003"}

Configs == [ChatKeySet -> ChatIdValues]

Pieces == {"#", "N/D", "n/d", "Podolsk", "chekhov", "serpukhov", "pushchino", "protvino",
           "okrug"}

(* str.lower() *)
LowerPiece(piece) ==
    CASE piece = "N/D" -> "n/d"
      [] piece = "Podolsk" -> "podolsk"
      [] OTHER -> piece

Lower(text) == [i \in 1..Len(text) |-> LowerPiece(text[i])]

(* needle in text *)
Contains(text, needle) ==
    \E i \in 0..(Len(text) - Len(needle)) :
        \A j \in 1..Len(needle) : text[i + j] = needle[j]

Texts == UNION {[1..n -> Pieces] : n \in 0..MaxWords}

(* the district argument: None, or a text (the empty one included) *)
NoDistrict == [absent |-> TRUE, text |-> <<>>]

Districts == {NoDistrict} \cup {[absent |-> FALSE, text |-> t] : t \in Texts}

district_to_chat_key_SouthFirst ==
    << [keyword |-> <<"serpukhov">>, chat_key |-> "south"],
       [keyword |-> <<"pushchino">>, chat_key |-> "south"],
       [keyword |-> <<"protvino">>, chat_key |-> "south"],
       [keyword |-> <<"podolsk">>, chat_key |-> "podolsk"],
       [keyword |-> <<"chekhov">>, chat_key |-> "chekhov"] >>

(* self.district_to_chat_key, in insertion order *)
district_to_chat_key ==
    << [keyword |-> <<"podolsk">>, chat_key |-> "podolsk"],
       [keyword |-> <<"chekhov">>, chat_key |-> "chekhov"],
       [keyword |-> <<"serpukhov">>, chat_key |-> "south"],
       [keyword |-> <<"pushchino">>, chat_key |-> "south"],
       [keyword |-> <<"protvino">>, chat_key |-> "south"] >>

(* '#n/d' in district_lower or '#n/d' == district_lower or 'n/d' in district_lower *)
HasMarker(district_lower) ==
    \/ Contains(district_lower, <<"#", "n/d">>)
    \/ district_lower = <<"#", "n/d">>
    \/ Contains(district_lower, <<"n/d">>)

(* for key in ['podolsk', 'chekhov', 'south']: if self.chat_ids[key]: chats.append(...) *)
AllChats(ids) ==
    LET configured == SelectSeq(ChatKeys, LAMBDA key : ids[key] # "")
    IN  [i \in 1..Len(configured) |-> ids[configured[i]]]

RECURSIVE KeywordLoop(_, _, _)
KeywordLoop(ids, district_lower, i) ==
    IF i > Len(district_to_chat_key)
    THEN <<>>
    ELSE IF Contains(district_lower, district_to_chat_key[i].keyword)
         THEN LET chat_id == ids[district_to_chat_key[i].chat_key]
              IN  IF chat_id # "" THEN <<chat_id>> ELSE <<>>
         ELSE KeywordLoop(ids, district_lower, i + 1)

get_target_chats_UnknownToAll(ids, d) ==
    IF d.absent \/ d.text = <<>>
    THEN <<>>
    ELSE IF HasMarker(Lower(d.text)) \/ KeywordLoop(ids, Lower(d.text), 1) = <<>>
         THEN AllChats(ids)
         ELSE KeywordLoop(ids, Lower(d.text), 1)

get_target_chats(ids, d) ==
    IF d.absent \/ d.text = <<>>
    THEN <<>>
    ELSE LET district_lower == Lower(d.text)
         IN  IF HasMarker(district_lower)
             THEN AllChats(ids)
             ELSE KeywordLoop(ids, district_lower, 1)

RouterIdle ==
    /\ chat_ids = [key \in ChatKeySet |-> ""]
    /\ district = NoDistrict
    /\ route = [done |-> TRUE, chats |-> <<>>]

----------------------------------------------------------------------------
(* GoogleSheetManager.get_district_by_address(address) over the table that  *)
(* load_lookup_data fills: keys lower-cased, trimmed and not empty, one     *)
(* district per row, later rows replacing earlier rows with the same key.   *)

Blank == " "

AddressPieces == {Blank, "Podolsk", "podolsk", "5"}

RECURSIVE StripLeft(_)
StripLeft(text) ==
    IF text # <<>> /\ Head(text) = Blank THEN StripLeft(Tail(text)) ELSE text

RECURSIVE StripRight(_)
StripRight(text) ==
    IF text # <<>> /\ text[Len(text)] = Blank
    THEN StripRight(SubSeq(text, 1, Len(text) - 1))
    ELSE text

(* str.strip() *)
Strip(text) == StripRight(StripLeft(text))

AddressTexts == UNION {[1..n -> AddressPieces] : n \in 0..MaxWords}

NoAddress == [absent |-> TRUE, text |-> <<>>]

Addresses == {NoAddress} \cup {[absent |-> FALSE, text |-> t] : t \in AddressTexts}

(* row[0].strip().lower() of a row whose row[0].strip() is not empty *)
TableKeys == {Lower(Strip(t)) : t \in AddressTexts} \ {<<>>}

(* the table after load_lookup_data: row i maps its key to district i *)
Tables ==
    LET rows(n) == {keys \in [1..n -> TableKeys] :
                       \A i, j \in 1..n : i # j => keys[i] # keys[j]}
    IN  UNION {{[i \in 1..n |-> [key |-> keys[i], value |-> i]] : keys \in rows(n)}
                  : n \in 0..MaxRows}

NotFound == [found |-> FALSE, value |-> 0]

TableHas(table, key) == \E i \in 1..Len(table) : table[i].key = key

TableGet(table, key) == table[CHOOSE i \in 1..Len(table) : table[i].key = key].value

(* for key, value in self.address_district_map.items(): ... return value *)
RECURSIVE LookupLoop(_, _, _)
LookupLoop(table, addr_lower, i) ==
    IF i > Len(table)
    THEN NotFound
    ELSE IF Contains(addr_lower, table[i].key) \/ Contains(table[i].key, addr_lower)
         THEN [found |-> TRUE, value |-> table[i].value]
         ELSE LookupLoop(table, addr_lower, i + 1)

get_district_by_address_SubstringFirst(table, a) ==
    IF a.absent \/ a.text = <<>>
    THEN NotFound
    ELSE LookupLoop(table, Strip(Lower(a.text)), 1)

get_district_by_address(table, a) ==
    IF a.absent \/ a.text = <<>>
    THEN NotFound
    ELSE LET addr_lower == Strip(Lower(a.text))
         IN  IF TableHas(table, addr_lower)
             THEN [found |-> TRUE, value |-> TableGet(table, addr_lower)]
             ELSE LookupLoop(table, addr_lower, 1)

LookupIdle ==
    /\ address_district_map = <<>>
    /\ lookup_address = NoAddress
    /\ lookup_result = [done |-> TRUE, found |-> FALSE, value |-> 0]

----------------------------------------------------------------------------
(* send_to_telegram, add_to_report and send_reports.  An accumulator of     *)
(* self.report_stats is kept as the number of sends recorded in it (it is   *)
(* empty when that number is 0).  A post is one call of a send method of    *)
(* the messaging channel; whether it succeeds is the environment's choice.  *)

SendOutcomes == {"ok", "fail", "raise"}

NoReports == [key \in ChatKeySet |-> 0]

(* if chat_id == self.chat_ids['podolsk'] ... elif ... 'chekhov' ... elif ... 'south' *)
ReportKeyOf(ids, chat_id) ==
    LET hits == SelectSeq(ChatKeys, LAMBDA key : ids[key] = chat_id)
    IN  hits[1]

RecordsSend_Always(outcome) == outcome \in SendOutcomes

(* if success: ... self.add_to_report(...) *)
RecordsSend(outcome) == outcome = "ok"

(* add_to_report(chat_key, task_data) *)
add_to_report(reports, chat_key) == [reports EXCEPT ![chat_key] = @ + 1]

RECURSIVE SendLoop(_, _, _, _, _)
SendLoop(ids, target_chats, outcomes, i, reports) ==
    IF i > Len(target_chats)
    THEN reports
    ELSE SendLoop(ids, target_chats, outcomes, i + 1,
                  IF RecordsSend(outcomes[i])
                  THEN add_to_report(reports, ReportKeyOf(ids, target_chats[i]))
                  ELSE reports)

(* send_to_telegram(task_data): outcomes[i] is what the send to the i-th target does *)
send_to_telegram(ids, d, photos, outcomes, reports) ==
    LET target_chats == get_target_chats(ids, d)
        kind == IF photos > 0 THEN "photos" ELSE "text"
    IN  [targets |-> target_chats,
         posts |-> [i \in 1..Len(target_chats) |->
                       [chat_id |-> target_chats[i], kind |-> kind,
                        ok |-> outcomes[i] = "ok"]],
         ret |-> \E i \in 1..Len(target_chats) : outcomes[i] = "ok",
         reports |-> IF target_chats = <<>>
                     THEN reports
                     ELSE SendLoop(ids, target_chats, outcomes, 1, reports)]

ReportText_AlwaysList(recorded) == "report"

(* if not stats: the "nothing processed" text, else the list of what was processed *)
ReportText(recorded) == IF recorded = 0 THEN "nothing_processed" ELSE "report"

(* send_reports(): one message per configured chat, then the accumulators are replaced *)
send_reports(ids, reports) ==
    LET configured == SelectSeq(ChatKeys, LAMBDA key : ids[key] # "")
    IN  [posts |-> [i \in 1..Len(configured) |->
                       [chat_id |-> ids[configured[i]],
                        kind |-> ReportText(reports[configured[i]]),
                        ok |-> TRUE]],
         reports |-> NoReports]

(* The stores save_task_data writes to: the spreadsheet ("none" when no      *)
(* worksheet is connected), the CSV file and the daily JSON backup.         *)
StoreStates == [google : {"none", "ok", "fail"}, csv : {"ok", "fail"}, json : {"ok", "fail"}]

StoresOk == [google |-> "none", csv |-> "ok", json |-> "ok"]

save_task_data_GoogleOnly(s) ==
    [ret |-> s.google = "ok", local |-> s.csv = "ok" \/ s.json = "ok"]

(* save_task_data(task_data): return success_google or success_csv; the JSON *)
(* backup is written in a try block of its own and does not count.  local   *)
(* records whether the CSV row or the JSON record was written.              *)
save_task_data(s) ==
    [ret |-> s.google = "ok" \/ s.csv = "ok", local |-> s.csv = "ok" \/ s.json = "ok"]

NoSend == [op |-> "none", path |-> "none", district |-> NoDistrict, targets |-> <<>>,
           posts |-> <<>>, ret |-> FALSE, processed |-> FALSE]

ReportIdle ==
    /\ bot_enabled = FALSE
    /\ stores = StoresOk
    /\ report_stats = NoReports
    /\ tg_last = NoSend

----------------------------------------------------------------------------
(* main() and start_monitoring(): the constructor, setup_driver, login,     *)
(* navigate_to_monitor_page, the start message and monitor_tasks            *)

(* What each step of the start meets.  config: the .env file and its        *)
(* required variables; setup_driver: "script_fails" is an error raised by   *)
(* execute_script of line 563, after webdriver.Chrome returned; login:      *)
(* "rejected" is the login page still shown after the submit; chats: how    *)
(* many of the three chats are configured.                                  *)
StartupInputs ==
    {i \in [config : {"ok", "no_env", "missing_vars"},
            setup_driver : {"ok", "chrome_fails", "script_fails"},
            login : {"ok", "rejected", "raises"},
            navigate : BOOLEAN,
            bot : BOOLEAN,
            chats : 0..Cardinality(ChatKeySet)] :
        i.chats = 0 => ~i.bot}

NotStarted(inputs) ==
    [inputs |-> inputs, phase |-> "new", driver |-> "none", loop_entered |-> FALSE,
     greeted |-> 0, ret |-> "none", check_count |-> 0, reloaded |-> FALSE]

StartupIdle ==
    startup = [NotStarted([config |-> "ok", setup_driver |-> "ok", login |-> "ok",
                           navigate |-> TRUE, bot |-> FALSE, chats |-> 0])
                   EXCEPT !.phase = "done"]

close_driver_Skip(driver) == driver

(* close_driver(): if self.driver: self.driver.quit() ... self.driver = None *)
close_driver(driver) == IF driver = "open" THEN "closed" ELSE driver

(* ElementMonitor() raises FileNotFoundError or ValueError (lines 422-430)  *)
(* and main() returns 1; setup_driver() or login() returning False makes    *)
(* start_monitoring return False through its finally; a failed navigation   *)
(* is only reported; then the start message goes to each configured chat    *)
(* and monitor_tasks() is entered.                                          *)
start_monitoring(inputs) ==
    LET st == NotStarted(inputs)
        created == [st EXCEPT !.driver = "open"]
        failed(at) == [at EXCEPT !.phase = "done", !.ret = "false",
                                 !.driver = close_driver(at.driver)]
    IN  IF inputs.config # "ok"
        THEN [st EXCEPT !.phase = "done", !.ret = "exit_1"]
        ELSE IF inputs.setup_driver = "chrome_fails"
        THEN failed(st)
        ELSE IF inputs.setup_driver = "script_fails"
        THEN failed(created)
        ELSE IF inputs.login # "ok"
        THEN failed(created)
        ELSE [created EXCEPT !.phase = "running", !.loop_entered = TRUE,
                             !.greeted = IF inputs.bot THEN inputs.chats ELSE 0]

----------------------------------------------------------------------------
(* extract_task_data(): six blocks, each in a try of its own, over the open *)
(* modal.  A text is "" when the field is empty.                            *)

PhotoMinBytes == 1024

MaxPhotos == 2

(* an entry of the list the canvas script returns: a data URL whose payload *)
(* decodes to size bytes, a string without a comma, or a payload that       *)
(* b64decode rejects                                                        *)
BlobSizes == {PhotoMinBytes - 1, PhotoMinBytes, PhotoMinBytes + 1}

Images ==
    {[form |-> "data_url", size |-> n] : n \in BlobSizes}
        \cup {[form |-> "no_comma", size |-> 0], [form |-> "bad_base64", size |-> 0]}

ImageLists == UNION {[1..n -> Images] : n \in 0..MaxPhotos}

(* the modal as the six blocks meet it; disk_fails: the write of a kept     *)
(* photo to photos_dir raises                                               *)
ExtractPages ==
    {p \in [address : {"found", "found_with_district", "absent", "raises"},
            container_type : {"found", "absent", "raises"},
            problem : {"found", "raises"},
            city_district : {"found", "absent", "raises"},
            driver_vehicle : {"found", "vehicle_only", "absent", "raises"},
            script_raises : BOOLEAN,
            images : ImageLists,
            disk_fails : BOOLEAN] :
        /\ p.script_raises => p.images = <<>>
        /\ p.disk_fails => p.images # <<>>}

BlockOrder == <<"address", "container_type", "problem", "city_district",
                "driver_vehicle", "photos">>

handled_blocks_NotAddress ==
    {"container_type", "problem", "city_district", "driver_vehicle", "photos"}

(* the blocks whose try has a handler that swallows the error: lines 739,   *)
(* 757, 791, 810, 859 and 910                                               *)
handled_blocks ==
    {"address", "container_type", "problem", "city_district", "driver_vehicle", "photos"}

BlockRaises(page, block) ==
    IF block = "photos" THEN page.script_raises ELSE page[block] = "raises"

(* if len(photo_data) > 1024 *)
keep_photo(size) == size > PhotoMinBytes

(* send_photos_with_caption_to_chat: if pd and len(pd) > 1024 *)
valid_photos(photos_data) ==
    SelectSeq(photos_data, LAMBDA n : n # 0 /\ n > PhotoMinBytes)

(* send_media_group_bytes_to_chat: if not photo_data or len(photo_data) < 1024: continue *)
media_group_photos(photos_data) ==
    SelectSeq(photos_data, LAMBDA n : ~(n = 0 \/ n < PhotoMinBytes))

NoPhotos == [photos_data |-> <<>>, photos_captured |-> 0, photos_failed |-> 0]

(* for i, base64_img in enumerate(base64_images): lines 887-906 *)
RECURSIVE extract_photos(_, _, _)
extract_photos(images, disk_fails, acc) ==
    IF images = <<>>
    THEN acc
    ELSE LET image == Head(images)
             failed == [acc EXCEPT !.photos_failed = @ + 1]
             kept == [acc EXCEPT !.photos_data = Append(@, image.size),
                                 !.photos_captured = @ + 1]
             next == IF image.form # "data_url" THEN failed
                     ELSE IF ~keep_photo(image.size) THEN failed
                     ELSE IF disk_fails THEN [kept EXCEPT !.photos_failed = @ + 1]
                     ELSE kept
         IN  extract_photos(Tail(images), disk_fails, next)

EmptyData ==
    [address |-> "", container_type |-> "", problem |-> "", city_district |-> "",
     driver_name |-> "", vehicle |-> ""]

(* What the call returns and counts.  A block runs when no block before it  *)
(* let an error out of the function.                                        *)
extract_task_data(page) ==
    LET escapes(i) == BlockRaises(page, BlockOrder[i]) /\ BlockOrder[i] \notin handled_blocks
        runs(i) == \A j \in 1..(i - 1) : ~escapes(j)
        text(i, found, value) == IF runs(i) /\ found THEN value ELSE ""
        address == text(1, page.address \in {"found", "found_with_district"}, "address")
        photos == IF ~runs(6) \/ page.script_raises THEN NoPhotos
                  ELSE IF page.images = <<>>
                  THEN [NoPhotos EXCEPT !.photos_failed = 1]
                  ELSE extract_photos(page.images, page.disk_fails, NoPhotos)
    IN  [raised |-> \E i \in 1..Len(BlockOrder) : escapes(i),
         data |-> [address |-> address,
                   container_type |-> text(2, page.container_type = "found", "container"),
                   problem |-> text(3, page.problem = "found", "PROBLEM"),
                   city_district |->
                       IF runs(4) /\ page.city_district = "found" THEN "district"
                       ELSE IF runs(4) /\ page.city_district = "absent"
                               /\ address # "" /\ page.address = "found_with_district"
                       THEN "district_of_address"
                       ELSE "",
                   driver_name |-> text(5, page.driver_vehicle = "found", "driver"),
                   vehicle |-> text(5, page.driver_vehicle \in {"found", "vehicle_only"},
                                    "vehicle")],
         photos |-> photos]

NotExtracted(page) ==
    [page |-> page, done |-> FALSE, raised |-> FALSE, data |-> EmptyData, photos |-> NoPhotos]

ExtractIdle ==
    extract = [NotExtracted([address |-> "absent", container_type |-> "absent",
                             problem |-> "raises", city_district |-> "absent",
                             driver_vehicle |-> "absent", script_raises |-> FALSE,
                             images |-> <<>>, disk_fails |-> FALSE])
                   EXCEPT !.done = TRUE]

----------------------------------------------------------------------------
(* The tail of process_task on its own (save_task_data, then the send), and *)
(* send_photos_with_caption_to_chat on its own.  A text is a sequence of    *)
(* pieces, "" being the empty sequence.                                     *)

(* a row of the spreadsheet or of the CSV file: the two columns followed *)
NoRow == [written |-> FALSE, city_district |-> <<>>, telegram_sent |-> "unset"]

NotPersisted ==
    [done |-> FALSE, path |-> "none", google_row |-> NoRow, csv_row |-> NoRow,
     send_called |-> FALSE, routed |-> <<>>, targets |-> <<>>, send_ret |-> FALSE,
     telegram_sent |-> "unset"]

PersistIdle ==
    persist = [inputs |-> [google |-> "none", csv |-> "ok", table |-> <<>>,
                           address |-> <<>>, city_district |-> <<>>,
                           chat_ids |-> [key \in ChatKeySet |-> ""],
                           bot_enabled |-> FALSE],
               result |-> [NotPersisted EXCEPT !.done = TRUE]]

NotSent == [done |-> FALSE, ret |-> FALSE, delivered |-> 0, photos_sent |-> 0]

PhotoSendIdle ==
    psend = [photos_data |-> <<>>, send_media_group |-> TRUE, fails |-> "none",
             result |-> [NotSent EXCEPT !.done = TRUE]]

Init ==
    /\ InitRegistry
    /\ ModalIdle
    /\ RouterIdle
    /\ LookupIdle
    /\ ReportIdle
    /\ StartupIdle
    /\ ExtractIdle
    /\ PersistIdle
    /\ PhotoSendIdle

----------------------------------------------------------------------------
(* monitor_tasks: one check *)

KeysOf(ts) == {TaskKey(ts[i].task_id, ts[i].address) : i \in 1..Len(ts)}

ReloadDue_MultipleOfPeriod(check) == check % ReloadPeriod = 0

(* check_count % 5 == 1: refresh the page and switch to the routes tab *)
ReloadDue(check) == check % ReloadPeriod = 1

(* while monitoring_active: check_count += 1; [reload]; tasks = find_all_tasks() *)
StartCheck ==
    /\ pc = "idle"
    /\ check_count < MaxChecks
    /\ check_count' = check_count + 1
    /\ \E visible \in Pages : tasks' = find_all_tasks(visible)
    /\ idx' = 1
    /\ pc' = "discover"
    /\ last' = NoCall
    /\ UNCHANGED <<processed_tasks, failed_tasks, stats, now, last_report_time,
                   sweep_items, sweep_time, tasks_to_remove, success_count, dropped>>

on_check_error_Stop(st) == [stats |-> [st EXCEPT !.errors = @ + 1], pc |-> "stopped"]

(* except Exception (line 1404): the error is logged and counted, and the   *)
(* loop goes on to the sleep of line 1411 and to the next check             *)
on_check_error(st) == [stats |-> [st EXCEPT !.errors = @ + 1], pc |-> "sleep"]

(* driver.refresh() raises: the check is abandoned by "except Exception" (line 1404) *)
ReloadFails ==
    /\ pc = "idle"
    /\ check_count < MaxChecks
    /\ ReloadDue(check_count + 1)
    /\ stats.errors < MaxErrors
    /\ check_count' = check_count + 1
    /\ stats' = on_check_error(stats).stats
    /\ pc' = on_check_error(stats).pc
    /\ last' = NoCall
    /\ UNCHANGED <<tasks, idx, processed_tasks, failed_tasks, now, last_report_time,
                   sweep_items, sweep_time, tasks_to_remove, success_count,
                   dropped>>

(* the reference a queue entry holds has raised on a click *)
MarkRaised(f, k) ==
    IF k \in FailedKeys(f)
    THEN [f EXCEPT ![FailedIndex(f, k)].task_info.element.raised = TRUE]
    ELSE f

(* the references the queue holds once the call is over: a retry clicks the *)
(* reference of the entry itself                                           *)
QueueAfter(obs, f) ==
    IF obs.is_retry /\ obs.met_stale THEN MarkRaised(f, obs.key) ELSE f

(* what a process_task call leaves behind *)
Apply(r, replaced) ==
    /\ processed_tasks' = r.processed
    /\ failed_tasks' = QueueAfter(r.obs, r.failed)
    /\ stats' = r.stats
    /\ last' = [r.obs EXCEPT !.replaced = replaced]
    /\ success_count' = IF r.success
                        THEN [success_count EXCEPT ![r.obs.key] = @ + 1]
                        ELSE success_count

should_skip_Pending(task_key, processed, failed) ==
    task_key \in processed \/ task_key \in FailedKeys(failed)

(* if task_key in self.processed_tasks: continue -- the failure queue is not asked *)
should_skip(task_key, processed, failed) == task_key \in processed

(* for ... in enumerate(tasks): if task_key in self.processed_tasks: continue *)
DiscoverSkip ==
    /\ pc = "discover"
    /\ idx <= Len(tasks)
    /\ LET task_key == TaskKey(tasks[idx].task_id, tasks[idx].address)
       IN  /\ should_skip(task_key, processed_tasks, failed_tasks)
           /\ last' = Observation("skip", task_key, FALSE, "skipped", FALSE, NotOpened,
                                  NoEnv, tasks[idx].element)
    /\ idx' = idx + 1
    /\ UNCHANGED <<pc, check_count, tasks, processed_tasks, failed_tasks, stats, now,
                   last_report_time, sweep_items, sweep_time, tasks_to_remove,
                   success_count, dropped>>

(* ... else: self.process_task(task, is_retry=False) *)
DiscoverProcess ==
    /\ pc = "discover"
    /\ idx <= Len(tasks)
    /\ ~should_skip(TaskKey(tasks[idx].task_id, tasks[idx].address), processed_tasks,
                    failed_tasks)
    /\ \E env \in EnvsFor(tasks[idx].element) :
           /\ env.err => stats.errors < MaxErrors
           /\ Apply(process_task(tasks[idx], FALSE, env, processed_tasks, failed_tasks,
                                 stats, now), "none")
    /\ idx' = idx + 1
    /\ UNCHANGED <<pc, check_count, tasks, now, last_report_time, sweep_items, sweep_time,
                   tasks_to_remove, dropped>>

pending_items_DropLast(failed) == SubSeq(failed, 1, Len(failed) - 1)

(* list(self.failed_tasks.items()): every entry queued at this moment, in order *)
pending_items(failed) == failed

retry_failed_tasks_begin_NoGuard(failed, time) ==
    [sweep |-> TRUE, items |-> pending_items(failed), current_time |-> time]

(* retry_failed_tasks, lines 1274-1280: return at once on an empty queue, else *)
(* take the time and the snapshot list(self.failed_tasks.items())              *)
retry_failed_tasks_begin(failed, time) ==
    IF failed = <<>>
    THEN [sweep |-> FALSE, items |-> <<>>, current_time |-> 0]
    ELSE [sweep |-> TRUE, items |-> pending_items(failed), current_time |-> time]

(* if self.failed_tasks: self.retry_failed_tasks() -- the sweep starts *)
BeginSweep ==
    /\ pc = "discover"
    /\ idx > Len(tasks)
    /\ failed_tasks # <<>>
    /\ LET b == retry_failed_tasks_begin(failed_tasks, now)
       IN  /\ sweep_items' = b.items
           /\ sweep_time' = b.current_time
           /\ pc' = IF b.sweep THEN "sweep" ELSE "report"
    /\ tasks_to_remove' = <<>>
    /\ idx' = 1
    /\ last' = NoCall
    /\ UNCHANGED <<check_count, tasks, processed_tasks, failed_tasks, stats, now,
                   last_report_time, success_count, dropped>>

(* the failure queue is empty: no sweep in this check *)
SkipSweep ==
    /\ pc = "discover"
    /\ idx > Len(tasks)
    /\ failed_tasks = <<>>
    /\ pc' = "report"
    /\ idx' = 1
    /\ last' = NoCall
    /\ UNCHANGED <<check_count, tasks, processed_tasks, failed_tasks, stats, now,
                   last_report_time, sweep_items, sweep_time, tasks_to_remove, success_count, dropped>>

----------------------------------------------------------------------------
(* retry_failed_tasks: one step per item of list(self.failed_tasks.items()) *)

InSweep == pc = "sweep" /\ idx <= Len(sweep_items)

(* fail_info['attempts'] >= self.config['max_retry_attempts'] *)
AttemptsExhausted(item) == item.attempts >= max_retry_attempts

(* current_time - fail_info['last_seen'] > 3600 *)
IsStale(item, current_time) == (current_time - item.last_seen) * TickSeconds > StaleSeconds

Mark(key, why) == Append(tasks_to_remove, [key |-> key, why |-> why])

(* attempts limit reached: mark for removal, count, continue *)
SweepDropAttempts ==
    /\ InSweep
    /\ AttemptsExhausted(sweep_items[idx])
    /\ stats.tasks_failed_permanent < MaxPermanent
    /\ tasks_to_remove' = Mark(sweep_items[idx].key, "attempts")
    /\ stats' = [stats EXCEPT !.tasks_failed_permanent = @ + 1]
    /\ idx' = idx + 1
    /\ last' = NoCall
    /\ UNCHANGED <<pc, check_count, tasks, processed_tasks, failed_tasks, now,
                   last_report_time, sweep_items, sweep_time, success_count,
                   dropped>>

(* last_seen more than an hour ago: mark for removal, continue *)
SweepDropStale ==
    /\ InSweep
    /\ ~AttemptsExhausted(sweep_items[idx])
    /\ IsStale(sweep_items[idx], sweep_time)
    /\ tasks_to_remove' = Mark(sweep_items[idx].key, "stale")
    /\ idx' = idx + 1
    /\ last' = NoCall
    /\ UNCHANGED <<pc, check_count, tasks, processed_tasks, failed_tasks, stats, now,
                   last_report_time, sweep_items, sweep_time, success_count,
                   dropped>>

(* a retry that this environment leads to line 1214 *)
RetryCounts(env) ==
    open_task_modal(env.opens, DefaultModalRetries).ret /\ ~env.err /\ ~PhotosOk(env.photos)

Retryable(item) == ~AttemptsExhausted(item) /\ ~IsStale(item, sweep_time)

(* task_info['element'].is_displayed() succeeds: process_task(task_info, is_retry=True) *)
SweepRetry ==
    /\ InSweep
    /\ Retryable(sweep_items[idx])
    /\ "ok" \in is_displayed(sweep_items[idx].task_info.element)
    /\ \E env \in EnvsFor(sweep_items[idx].task_info.element) :
           /\ env.err => stats.errors < MaxErrors
           /\ RetryCounts(env) => stats.tasks_failed_permanent < MaxPermanent
           /\ Apply(process_task(sweep_items[idx].task_info, TRUE, env, processed_tasks,
                                 failed_tasks, stats, now), "none")
    /\ idx' = idx + 1
    /\ UNCHANGED <<pc, check_count, tasks, now, last_report_time, sweep_items, sweep_time,
                   tasks_to_remove, dropped>>

(* find_task_by_id(task_id): the element of the first visible task with that id *)
find_task_by_id(task_id, visible) ==
    LET found == find_all_tasks(visible)
        hits == SelectSeq(found, LAMBDA t : t.task_id = task_id)
    IN  IF task_id = NoneId \/ hits = <<>>
        THEN [found |-> FALSE, element |-> NoElement]
        ELSE [found |-> TRUE, element |-> hits[1].element]

(* task_info['element'] = new_task: the dict is the one the queue entry holds *)
SetElement(f, k, element) ==
    IF k \in FailedKeys(f)
    THEN [f EXCEPT ![FailedIndex(f, k)].task_info.element = element]
    ELSE f

(* is_displayed() raises StaleElementReferenceException: re-resolve by task_id *)
SweepReresolve ==
    /\ InSweep
    /\ Retryable(sweep_items[idx])
    /\ "stale" \in is_displayed(sweep_items[idx].task_info.element)
    /\ \E visible \in ResolvePages :
        LET item == sweep_items[idx]
            new_task == find_task_by_id(item.task_info.task_id, visible)
            task_info == [item.task_info EXCEPT !.element = new_task.element]
        IN  IF new_task.found
            THEN /\ \E env \in EnvsFor(new_task.element) :
                      /\ env.err => stats.errors < MaxErrors
                      /\ RetryCounts(env) => stats.tasks_failed_permanent < MaxPermanent
                      /\ Apply(process_task(task_info, TRUE, env, processed_tasks,
                                            SetElement(failed_tasks, item.key,
                                                       new_task.element),
                                            stats, now),
                           IF item.task_info.element.raised THEN "raised" ELSE "resolved")
                 /\ UNCHANGED tasks_to_remove
            ELSE /\ tasks_to_remove' = Mark(item.key, "unresolved")
                 /\ last' = NoCall
                 /\ UNCHANGED <<processed_tasks, failed_tasks, stats, success_count>>
    /\ idx' = idx + 1
    /\ UNCHANGED <<pc, check_count, tasks, now, last_report_time, sweep_items, sweep_time,
                   dropped>>

(* is_displayed() raises another error: it leaves retry_failed_tasks before the     *)
(* removal loop and is caught by "except Exception" of the check (line 1404)        *)
SweepAbort ==
    /\ InSweep
    /\ Retryable(sweep_items[idx])
    /\ stats.errors < MaxErrors
    /\ stats' = on_check_error(stats).stats
    /\ pc' = on_check_error(stats).pc
    /\ sweep_items' = <<>>
    /\ tasks_to_remove' = <<>>
    /\ idx' = 1
    /\ tasks' = <<>>
    /\ sweep_time' = 0
    /\ last' = NoCall
    /\ UNCHANGED <<check_count, processed_tasks, failed_tasks, now, last_report_time,
                   success_count, dropped>>

RemovedKeys(marks) == [i \in 1..Len(marks) |-> marks[i].key]

(* for key in tasks_to_remove: if key in self.failed_tasks: del self.failed_tasks[key] *)
RemoveMarked(failed, marks) == FailedDelAll(failed, RemovedKeys(marks))

SweepEnd ==
    /\ pc = "sweep"
    /\ idx > Len(sweep_items)
    /\ failed_tasks' = RemoveMarked(failed_tasks, tasks_to_remove)
    /\ dropped' = dropped \cup
           {tasks_to_remove[i].key : i \in {j \in 1..Len(tasks_to_remove) :
                                               tasks_to_remove[j].why # "unresolved"}}
    /\ pc' = "report"
    /\ sweep_items' = <<>>
    /\ tasks_to_remove' = <<>>
    /\ idx' = 1
    /\ sweep_time' = 0
    /\ last' = NoCall
    /\ UNCHANGED <<check_count, tasks, processed_tasks, stats, now, last_report_time,
                   success_count>>

----------------------------------------------------------------------------
(* the rest of the check, the sleep, the clock and the external interrupt *)

(* time_since_last_report >= self.config['report_interval_hours'] * 3600 *)
ReportIsDue(time, last_time) == (time - last_time) * TickSeconds >= report_interval_hours * 3600

(* send_reports(): ... self.last_report_time = datetime.now() *)
ReportDue ==
    /\ pc = "report"
    /\ ReportIsDue(now, last_report_time)
    /\ last_report_time' = now
    /\ pc' = "sleep"
    /\ tasks' = <<>>
    /\ last' = NoCall
    /\ UNCHANGED <<check_count, idx, processed_tasks, failed_tasks, stats, now, sweep_items,
                   sweep_time, tasks_to_remove, success_count, dropped>>

ReportNotDue ==
    /\ pc = "report"
    /\ ~ReportIsDue(now, last_report_time)
    /\ pc' = "sleep"
    /\ tasks' = <<>>
    /\ last' = NoCall
    /\ UNCHANGED <<check_count, idx, processed_tasks, failed_tasks, stats, now,
                   last_report_time, sweep_items, sweep_time, tasks_to_remove, success_count, dropped>>

(* time.sleep(self.config['monitor_interval']) *)
Sleep ==
    /\ pc = "sleep"
    /\ pc' = "idle"
    /\ last' = NoCall
    /\ UNCHANGED <<check_count, tasks, idx, processed_tasks, failed_tasks, stats, now,
                   last_report_time, sweep_items, sweep_time, tasks_to_remove, success_count, dropped>>

(* the clock advances by a tick while the loop sleeps between two checks *)
Tick ==
    /\ pc = "sleep"
    /\ now < MaxTime
    /\ now' = now + 1
    /\ last' = NoCall
    /\ UNCHANGED <<pc, check_count, tasks, idx, processed_tasks, failed_tasks, stats,
                   last_report_time, sweep_items, sweep_time, tasks_to_remove, success_count, dropped>>

(* KeyboardInterrupt: except KeyboardInterrupt / finally: self.send_reports() *)
Interrupt ==
    /\ pc # "stopped"
    /\ pc' = "stopped"
    /\ last_report_time' = now
    /\ tasks' = <<>>
    /\ sweep_items' = <<>>
    /\ tasks_to_remove' = <<>>
    /\ idx' = 1
    /\ sweep_time' = 0
    /\ last' = NoCall
    /\ UNCHANGED <<check_count, processed_tasks, failed_tasks, stats, now, success_count, dropped>>

Next ==
    \/ (StartCheck /\ UNCHANGED unit_vars)
    \/ (ReloadFails /\ UNCHANGED unit_vars)
    \/ (DiscoverSkip /\ UNCHANGED unit_vars)
    \/ (DiscoverProcess /\ UNCHANGED unit_vars)
    \/ (BeginSweep /\ UNCHANGED unit_vars)
    \/ (SkipSweep /\ UNCHANGED unit_vars)
    \/ (SweepDropAttempts /\ UNCHANGED unit_vars)
    \/ (SweepDropStale /\ UNCHANGED unit_vars)
    \/ (SweepRetry /\ UNCHANGED unit_vars)
    \/ (SweepReresolve /\ UNCHANGED unit_vars)
    \/ (SweepAbort /\ UNCHANGED unit_vars)
    \/ (SweepEnd /\ UNCHANGED unit_vars)
    \/ (ReportDue /\ UNCHANGED unit_vars)
    \/ (ReportNotDue /\ UNCHANGED unit_vars)
    \/ (Sleep /\ UNCHANGED unit_vars)
    \/ (Tick /\ UNCHANGED unit_vars)
    \/ (Interrupt /\ UNCHANGED unit_vars)

Spec == Init /\ [][Next]_vars

----------------------------------------------------------------------------
(* the polling loop on pages whose tasks share an address; its checks all   *)
(* run before the clock's first tick and the operator does not interrupt,   *)
(* so no entry gets stale and no report is due                              *)

(* check_count += 1; tasks = find_all_tasks() on a page of IdentityPages *)
StartIdentityCheck ==
    /\ pc = "idle"
    /\ check_count < MaxIdentityChecks
    /\ check_count' = check_count + 1
    /\ \E visible \in IdentityPages : tasks' = find_all_tasks(visible)
    /\ idx' = 1
    /\ pc' = "discover"
    /\ last' = NoCall
    /\ UNCHANGED <<processed_tasks, failed_tasks, stats, now, last_report_time,
                   sweep_items, sweep_time, tasks_to_remove, success_count, dropped>>

NextIdentity ==
    \/ (StartIdentityCheck /\ UNCHANGED unit_vars)
    \/ (DiscoverSkip /\ UNCHANGED unit_vars)
    \/ (DiscoverProcess /\ UNCHANGED unit_vars)
    \/ (BeginSweep /\ UNCHANGED unit_vars)
    \/ (SkipSweep /\ UNCHANGED unit_vars)
    \/ (SweepDropAttempts /\ UNCHANGED unit_vars)
    \/ (SweepRetry /\ UNCHANGED unit_vars)
    \/ (SweepReresolve /\ UNCHANGED unit_vars)
    \/ (SweepAbort /\ UNCHANGED unit_vars)
    \/ (SweepEnd /\ UNCHANGED unit_vars)
    \/ (ReportNotDue /\ UNCHANGED unit_vars)
    \/ (Sleep /\ UNCHANGED unit_vars)

SpecIdentity == Init /\ [][NextIdentity]_vars

----------------------------------------------------------------------------
(* open_task_modal on its own: every outcome sequence, every retries argument *)

InitModal ==
    /\ InitRegistry
    /\ RouterIdle
    /\ LookupIdle
    /\ ReportIdle
    /\ StartupIdle
    /\ ExtractIdle
    /\ PersistIdle
    /\ PhotoSendIdle
    /\ m_outcomes \in [1..MaxModalRetries -> Outcomes]
    /\ m_retries \in 0..MaxModalRetries
    /\ m_result = [done |-> FALSE, ret |-> FALSE, clicks |-> 0, closes |-> 0, log |-> <<>>]

CallOpenTaskModal ==
    /\ ~m_result.done
    /\ LET r == open_task_modal(m_outcomes, m_retries)
       IN  m_result' = [done |-> TRUE, ret |-> r.ret, clicks |-> r.clicks,
                        closes |-> r.closes, log |-> r.log]
    /\ UNCHANGED <<m_outcomes, m_retries>>
    /\ UNCHANGED <<registry_vars, router_vars, lookup_vars, startup_vars, extract_vars, tail_vars, report_vars>>

NextModal == CallOpenTaskModal

SpecModal == InitModal /\ [][NextModal]_vars

----------------------------------------------------------------------------
(* get_target_chats on its own: every configuration of the chats, every district *)

InitRouter ==
    /\ InitRegistry
    /\ ModalIdle
    /\ LookupIdle
    /\ ReportIdle
    /\ StartupIdle
    /\ ExtractIdle
    /\ PersistIdle
    /\ PhotoSendIdle
    /\ chat_ids \in Configs
    /\ district \in Districts
    /\ route = [done |-> FALSE, chats |-> <<>>]

CallGetTargetChats ==
    /\ ~route.done
    /\ route' = [done |-> TRUE, chats |-> get_target_chats(chat_ids, district)]
    /\ UNCHANGED <<chat_ids, district>>
    /\ UNCHANGED <<registry_vars, modal_vars, lookup_vars, startup_vars, extract_vars, tail_vars, report_vars>>

(* send_to_telegram(task_data) for a task with photos and that district *)
CallSendToTelegram ==
    /\ route.done
    /\ tg_last = NoSend
    /\ \E outcomes \in [1..Len(route.chats) -> SendOutcomes] :
           LET t == send_to_telegram(chat_ids, district, 1, outcomes, report_stats)
           IN  /\ report_stats' = t.reports
               /\ tg_last' = [op |-> "send_to_telegram", path |-> "success",
                              district |-> district, targets |-> t.targets,
                              posts |-> t.posts, ret |-> t.ret]
    /\ UNCHANGED <<bot_enabled, stores, registry_vars, modal_vars, router_vars, lookup_vars, startup_vars, extract_vars, tail_vars>>

NextRouter ==
    \/ CallGetTargetChats
    \/ CallSendToTelegram

SpecRouter == InitRouter /\ [][NextRouter]_vars

----------------------------------------------------------------------------
(* get_district_by_address on its own: every table, every address *)

InitLookup ==
    /\ InitRegistry
    /\ ModalIdle
    /\ RouterIdle
    /\ ReportIdle
    /\ StartupIdle
    /\ ExtractIdle
    /\ PersistIdle
    /\ PhotoSendIdle
    /\ address_district_map \in Tables
    /\ lookup_address \in Addresses
    /\ lookup_result = [done |-> FALSE, found |-> FALSE, value |-> 0]

CallGetDistrictByAddress ==
    /\ ~lookup_result.done
    /\ LET r == get_district_by_address(address_district_map, lookup_address)
       IN  lookup_result' = [done |-> TRUE, found |-> r.found, value |-> r.value]
    /\ UNCHANGED <<address_district_map, lookup_address>>
    /\ UNCHANGED <<registry_vars, modal_vars, startup_vars, extract_vars, tail_vars, router_vars, report_vars>>

NextLookup == CallGetDistrictByAddress

SpecLookup == InitLookup /\ [][NextLookup]_vars

----------------------------------------------------------------------------
(* Messaging and reports: process_task up to its send, send_to_telegram,    *)
(* and send_reports, for a task that is new each time                       *)

ReportConfigs ==
    { [podolsk |-> "-1001", chekhov |-> "-1002", south |-> "-1003"],
      [podolsk |-> "", chekhov |-> "-1002", south |-> "-1003"],
      [podolsk |-> "-1001", chekhov |-> "-1001", south |-> ""],
      [podolsk |-> "", chekhov |-> "", south |-> ""] }

ReportDistricts ==
    { NoDistrict,
      [absent |-> FALSE, text |-> <<>>],
      [absent |-> FALSE, text |-> <<"okrug">>],
      [absent |-> FALSE, text |-> <<"N/D">>],
      [absent |-> FALSE, text |-> <<"Podolsk", "okrug">>],
      [absent |-> FALSE, text |-> <<"chekhov">>],
      [absent |-> FALSE, text |-> <<"protvino">>] }

(* telegram_bot.enabled: a token is set, and line 471 clears it when no chat is configured *)
InitReport ==
    /\ InitRegistry
    /\ ModalIdle
    /\ LookupIdle
    /\ StartupIdle
    /\ ExtractIdle
    /\ PersistIdle
    /\ PhotoSendIdle
    /\ district = NoDistrict
    /\ route = [done |-> TRUE, chats |-> <<>>]
    /\ chat_ids \in ReportConfigs
    /\ bot_enabled \in BOOLEAN
    /\ (\A key \in ChatKeySet : chat_ids[key] = "") => ~bot_enabled
    /\ stores = StoresOk
    /\ report_stats = NoReports
    /\ tg_last = NoSend

(* process_task with save_task_data as the stores let it end and with the    *)
(* send of lines 1233-1238.  fresh: the task is one not met before, so the   *)
(* call finds no key of it in the registry and the registry is not followed. *)
ProcessTask(fresh) ==
    /\ pc = "idle"
    /\ \E is_retry \in BOOLEAN, env \in EnvsFor(find_all_tasks({1})[1].element) :
        LET r == process_task(find_all_tasks({1})[1], is_retry, env,
                              IF fresh THEN {} ELSE processed_tasks, <<>>, NoStats, now)
            done == r.obs.key \in r.processed
        IN  /\ r.obs.saves = 1 => env.save = save_task_data(stores).ret
            /\ processed_tasks' = IF fresh THEN processed_tasks ELSE r.processed
            /\ IF r.obs.sends = 1 /\ bot_enabled
               THEN \E d \in ReportDistricts :
                    \E outcomes \in [1..Len(get_target_chats(chat_ids, d)) -> SendOutcomes] :
                       LET t == send_to_telegram(chat_ids, d, env.photos, outcomes,
                                                 report_stats)
                       IN  /\ \A key \in ChatKeySet : t.reports[key] <= MaxRecorded
                           /\ report_stats' = t.reports
                           /\ tg_last' = [op |-> "send_to_telegram", path |-> r.obs.path,
                                          district |-> d, targets |-> t.targets,
                                          posts |-> t.posts, ret |-> t.ret,
                                          processed |-> done]
               ELSE /\ report_stats' = report_stats
                    /\ tg_last' = [NoSend EXCEPT !.op = "process_task",
                                                 !.path = r.obs.path,
                                                 !.processed = done]
    /\ UNCHANGED <<pc, check_count, tasks, idx, failed_tasks, stats, now, last_report_time,
                   sweep_items, sweep_time, tasks_to_remove, last, success_count, dropped>>
    /\ UNCHANGED <<bot_enabled, stores, modal_vars, router_vars, lookup_vars, startup_vars, extract_vars, tail_vars>>

(* process_task on a task not met before *)
ProcessAndSend == ProcessTask(TRUE)

(* process_task on task 101, in the first check that lists it or in a later one *)
ProcessKnownTask == ProcessTask(FALSE)

(* send_reports(), from the report check of line 1383 *)
FlushReports ==
    /\ pc = "idle"
    /\ LET r == send_reports(chat_ids, report_stats)
       IN  /\ report_stats' = r.reports
           /\ tg_last' = [NoSend EXCEPT !.op = "send_reports", !.posts = r.posts]
    /\ last_report_time' = now
    /\ UNCHANGED <<pc, check_count, tasks, idx, processed_tasks, failed_tasks, stats, now,
                   sweep_items, sweep_time, tasks_to_remove, last, success_count, dropped>>
    /\ UNCHANGED <<bot_enabled, stores, modal_vars, router_vars, lookup_vars, startup_vars, extract_vars, tail_vars>>

(* retry_failed_tasks() called while the failure queue is empty *)
CallRetryFailedTasks ==
    /\ pc = "idle"
    /\ failed_tasks = <<>>
    /\ LET b == retry_failed_tasks_begin(failed_tasks, now)
       IN  /\ sweep_items' = b.items
           /\ sweep_time' = b.current_time
           /\ pc' = IF b.sweep THEN "sweep" ELSE pc
    /\ tg_last' = [NoSend EXCEPT !.op = "retry_failed_tasks"]
    /\ UNCHANGED <<check_count, tasks, idx, processed_tasks, failed_tasks, stats, now,
                   last_report_time, tasks_to_remove, last, success_count, dropped>>
    /\ UNCHANGED <<bot_enabled, stores, report_stats, modal_vars, router_vars, lookup_vars, startup_vars, extract_vars, tail_vars>>

(* the clock advances between two steps *)
TickReport ==
    /\ pc = "idle"
    /\ now < MaxTime
    /\ now' = now + 1
    /\ tg_last' = NoSend
    /\ UNCHANGED <<pc, check_count, tasks, idx, processed_tasks, failed_tasks, stats,
                   last_report_time, sweep_items, sweep_time, tasks_to_remove, last,
                   success_count, dropped>>
    /\ UNCHANGED <<bot_enabled, stores, report_stats, modal_vars, router_vars, lookup_vars, startup_vars, extract_vars, tail_vars>>

monitor_tasks_finally_NoFlush(ids, reports) == [posts |-> <<>>, reports |-> reports]

(* finally (line 1417): monitoring_active = False, the summary is printed,  *)
(* and self.send_reports() is the last statement                            *)
monitor_tasks_finally(ids, reports) == send_reports(ids, reports)

(* the loop is left through the finally of monitor_tasks *)
LeaveLoop ==
    /\ pc' = "stopped"
    /\ LET r == monitor_tasks_finally(chat_ids, report_stats)
       IN  /\ report_stats' = r.reports
           /\ tg_last' = [NoSend EXCEPT !.op = "send_reports", !.posts = r.posts]
    /\ last_report_time' = now
    /\ UNCHANGED <<check_count, tasks, idx, processed_tasks, failed_tasks, stats, now,
                   sweep_items, sweep_time, tasks_to_remove, success_count, dropped>>
    /\ UNCHANGED <<bot_enabled, stores, modal_vars, router_vars, lookup_vars, startup_vars, extract_vars, tail_vars>>

(* KeyboardInterrupt while no task is in flight, as in time.sleep of line 1411 *)
StopMonitoring ==
    /\ pc = "idle"
    /\ last' = NoCall
    /\ LeaveLoop

(* KeyboardInterrupt while process_task is at work on a task whose modal is *)
(* open, as in the waits of extract_task_data: it passes the handlers of    *)
(* lines 1264 and 1404 and reaches "except KeyboardInterrupt" of line 1413  *)
InterruptTask ==
    /\ pc = "idle"
    /\ \E is_retry \in BOOLEAN, env \in EnvsFor(find_all_tasks({1})[1].element) :
        LET task_info == find_all_tasks({1})[1]
            opened == open_task_modal(env.opens, DefaultModalRetries)
        IN  /\ opened.ret
            /\ env = [NoEnv EXCEPT !.opens = env.opens]
            /\ last' = Observation("interrupted",
                                   TaskKey(task_info.task_id, task_info.address),
                                   is_retry, "interrupted", FALSE, opened, env,
                                   task_info.element)
    /\ LeaveLoop

NextReport ==
    \/ ProcessAndSend
    \/ FlushReports
    \/ CallRetryFailedTasks
    \/ TickReport
    \/ StopMonitoring
    \/ InterruptTask

SpecReport == InitReport /\ [][NextReport]_vars

----------------------------------------------------------------------------
(* process_task with every state of the stores, every channel configuration *)
(* and every outcome of the sends                                           *)

InitSave ==
    /\ InitRegistry
    /\ ModalIdle
    /\ LookupIdle
    /\ StartupIdle
    /\ ExtractIdle
    /\ PersistIdle
    /\ PhotoSendIdle
    /\ district = NoDistrict
    /\ route = [done |-> TRUE, chats |-> <<>>]
    /\ chat_ids \in ReportConfigs
    /\ bot_enabled \in BOOLEAN
    /\ (\A key \in ChatKeySet : chat_ids[key] = "") => ~bot_enabled
    /\ stores \in StoreStates
    /\ report_stats = NoReports
    /\ tg_last = NoSend

NextSave == ProcessKnownTask

SpecSave == InitSave /\ [][NextSave]_vars

----------------------------------------------------------------------------
(* The start of a run and the reloads of its checks *)

MaxLoopChecks == 6

InitStartup ==
    /\ InitRegistry
    /\ ModalIdle
    /\ RouterIdle
    /\ LookupIdle
    /\ ReportIdle
    /\ ExtractIdle
    /\ PersistIdle
    /\ PhotoSendIdle
    /\ \E inputs \in StartupInputs : startup = NotStarted(inputs)

(* main(): monitor = ElementMonitor(); monitor.start_monitoring(), up to the *)
(* loop of monitor_tasks or to the return                                   *)
StartMonitoring ==
    /\ startup.phase = "new"
    /\ startup' = start_monitoring(startup.inputs)
    /\ UNCHANGED <<registry_vars, modal_vars, router_vars, lookup_vars, report_vars,
                   extract_vars, tail_vars>>

(* while self.monitoring_active: check_count += 1 ... if check_count % 5 == 1: *)
(* self.driver.refresh(); self.switch_to_routes_tab()                          *)
LoopCheck ==
    /\ startup.phase = "running"
    /\ startup.check_count < MaxLoopChecks
    /\ startup' = [startup EXCEPT !.check_count = @ + 1,
                                  !.reloaded = ReloadDue(startup.check_count + 1)]
    /\ UNCHANGED <<registry_vars, modal_vars, router_vars, lookup_vars, report_vars,
                   extract_vars, tail_vars>>

(* KeyboardInterrupt: monitor_tasks returns, start_monitoring returns True *)
(* through finally: self.close_driver()                                    *)
LoopInterrupt ==
    /\ startup.phase = "running"
    /\ startup' = [startup EXCEPT !.phase = "done", !.ret = "true",
                                  !.driver = close_driver(startup.driver)]
    /\ UNCHANGED <<registry_vars, modal_vars, router_vars, lookup_vars, report_vars,
                   extract_vars, tail_vars>>

NextStartup ==
    \/ StartMonitoring
    \/ LoopCheck
    \/ LoopInterrupt

SpecStartup == InitStartup /\ [][NextStartup]_vars

----------------------------------------------------------------------------
(* extract_task_data on its own: every page *)

InitExtract ==
    /\ InitRegistry
    /\ ModalIdle
    /\ RouterIdle
    /\ LookupIdle
    /\ ReportIdle
    /\ StartupIdle
    /\ PersistIdle
    /\ PhotoSendIdle
    /\ \E page \in ExtractPages : extract = NotExtracted(page)

CallExtractTaskData ==
    /\ ~extract.done
    /\ LET r == extract_task_data(extract.page)
       IN  extract' = [extract EXCEPT !.done = TRUE, !.raised = r.raised,
                                     !.data = r.data, !.photos = r.photos]
    /\ UNCHANGED <<registry_vars, modal_vars, router_vars, lookup_vars, report_vars,
                   startup_vars, tail_vars>>

NextExtract == CallExtractTaskData

SpecExtract == InitExtract /\ [][NextExtract]_vars

----------------------------------------------------------------------------
(* save_task_data and the send of process_task: every state of the stores,  *)
(* a lookup sheet, an address and an extracted district                     *)

(* task_data['address'] *)
PersistAddresses == {<<>>, <<"5">>, <<"Podolsk", "5">>}

(* address_district_map: key -> the district text of column B, "" included *)
SheetTables ==
    { <<>>,
      <<[key |-> <<"podolsk">>, value |-> <<"chekhov">>]>>,
      <<[key |-> <<"podolsk">>, value |-> <<>>]>>,
      <<[key |-> <<"5">>, value |-> <<"Podolsk">>],
        [key |-> <<"podolsk", "5">>, value |-> <<"serpukhov">>]>> }

(* task_data['city_district'] as extract_task_data left it *)
ExtractedDistricts == {<<>>, <<"Podolsk">>, <<"protvino">>}

(* google: "none" when no worksheet is connected (then no lookup sheet was  *)
(* loaded: setup_google_sheets sets the worksheet before it loads the       *)
(* lookup data), "fail" when append_row raises on every attempt             *)
PersistInputs ==
    {i \in [google : {"none", "ok", "fail"}, csv : {"ok", "fail"}, table : SheetTables,
            address : PersistAddresses, city_district : ExtractedDistricts,
            chat_ids : ReportConfigs, bot_enabled : BOOLEAN] :
        /\ i.google = "none" => i.table = <<>>
        /\ (\A key \in ChatKeySet : i.chat_ids[key] = "") => ~i.bot_enabled}

AsDistrict(text) == [absent |-> FALSE, text |-> text]

apply_lookup_KeepExtracted(city_district, lk) == city_district

(* if district_from_lookup: data['city_district'] = district_from_lookup *)
apply_lookup(city_district, lk) ==
    IF lk.found /\ lk.value # <<>> THEN lk.value ELSE city_district

(* row_data: data.get('city_district', ''), data.get('telegram_sent', 'Нет') *)
RowOf(data) ==
    [written |-> TRUE, city_district |-> data.city_district,
     telegram_sent |-> IF data.telegram_sent = "unset" THEN "Net" ELSE data.telegram_sent]

(* GoogleSheetManager.add_row(data): the lookup rewrites data in place      *)
(* before the row is built and appended                                     *)
GoogleSheetManager_add_row(google, table, data) ==
    IF google = "none"
    THEN [ret |-> FALSE, data |-> data, row |-> NoRow]
    ELSE LET lk == get_district_by_address(table, [absent |-> FALSE, text |-> data.address])
             d == [data EXCEPT !.city_district = apply_lookup(@, lk)]
         IN  [ret |-> google = "ok", data |-> d,
              row |-> IF google = "ok" THEN RowOf(d) ELSE NoRow]

(* CSVManager.add_row(data) *)
CSVManager_add_row(csv, data) ==
    [ret |-> csv = "ok", row |-> IF csv = "ok" THEN RowOf(data) ELSE NoRow]

(* task_data['telegram_sent'] of lines 1234-1238 *)
telegram_sent_status(enabled, sent) ==
    IF enabled THEN (IF sent THEN "Da" ELSE "Net") ELSE "Bot otklyuchen"

(* process_task, lines 1227-1238, for a task with photos: save_task_data    *)
(* (the spreadsheet row, then the CSV row), then the send                   *)
save_and_send(i, outcomes) ==
    LET data == [address |-> i.address, city_district |-> i.city_district,
                 telegram_sent |-> "unset"]
        g == GoogleSheetManager_add_row(i.google, i.table, data)
        c == CSVManager_add_row(i.csv, g.data)
        t == send_to_telegram(i.chat_ids, AsDistrict(g.data.city_district), 1, outcomes,
                              NoReports)
        saved == [NotPersisted EXCEPT !.done = TRUE, !.google_row = g.row,
                                      !.csv_row = c.row]
    IN  IF ~(g.ret \/ c.ret)
        THEN [saved EXCEPT !.path = "save_failed"]
        ELSE IF i.bot_enabled
        THEN [saved EXCEPT !.path = "success", !.send_called = TRUE,
                           !.routed = g.data.city_district, !.targets = t.targets,
                           !.send_ret = t.ret,
                           !.telegram_sent = telegram_sent_status(TRUE, t.ret)]
        ELSE [saved EXCEPT !.path = "success",
                           !.telegram_sent = telegram_sent_status(FALSE, FALSE)]

InitPersist ==
    /\ InitRegistry
    /\ ModalIdle
    /\ RouterIdle
    /\ LookupIdle
    /\ ReportIdle
    /\ StartupIdle
    /\ ExtractIdle
    /\ PhotoSendIdle
    /\ \E i \in PersistInputs : persist = [inputs |-> i, result |-> NotPersisted]

SaveAndSend ==
    /\ ~persist.result.done
    /\ \E outcomes \in [1..Len(ChatKeys) -> SendOutcomes] :
           persist' = [persist EXCEPT !.result = save_and_send(persist.inputs, outcomes)]
    /\ UNCHANGED <<registry_vars, modal_vars, router_vars, lookup_vars, report_vars,
                   startup_vars, extract_vars, psend>>

NextPersist == SaveAndSend

SpecPersist == InitPersist /\ [][NextPersist]_vars

----------------------------------------------------------------------------
(* send_photos_with_caption_to_chat on its own, for an enabled bot and a    *)
(* configured chat: every number of photos, both modes                      *)

MaxTaskPhotos == 11

MediaGroupLimit == 10

(* photos_data: blobs above the threshold, with or without one of exactly   *)
(* PhotoMinBytes bytes at the end                                           *)
PhotoLists ==
    LET good(n) == [k \in 1..n |-> PhotoMinBytes + 1]
    IN  {good(n) : n \in 0..MaxTaskPhotos}
            \cup {Append(good(n), PhotoMinBytes) : n \in 0..MaxTaskPhotos}

(* which posts to the channel fail: none, the first, the second, or all *)
FailPatterns == {"none", "first", "second", "all"}

PostOk(fails, k) ==
    CASE fails = "none" -> TRUE
      [] fails = "first" -> k # 1
      [] fails = "second" -> k # 2
      [] OTHER -> FALSE

(* TelegramBot.send_media_group_bytes_to_chat: photos_data[:10], the blobs  *)
(* of 1024 bytes and more in one post                                       *)
send_media_group_bytes_to_chat(photos_data, fails) ==
    LET first == SubSeq(photos_data, 1,
                        IF Len(photos_data) < MediaGroupLimit
                        THEN Len(photos_data) ELSE MediaGroupLimit)
        media == media_group_photos(first)
    IN  IF photos_data = <<>> \/ media = <<>>
        THEN [ret |-> FALSE, delivered |-> 0]
        ELSE [ret |-> PostOk(fails, 1),
              delivered |-> IF PostOk(fails, 1) THEN Len(media) ELSE 0]

(* send_photos_with_caption_to_chat: delivered is the number of photos the  *)
(* channel received, photos_sent the increase of stats['photos_sent']       *)
send_photos_with_caption_to_chat(photos_data, send_media_group, fails) ==
    LET valid == valid_photos(photos_data)
        oks == {k \in 1..Len(valid) : PostOk(fails, k)}
        g == send_media_group_bytes_to_chat(valid, fails)
    IN  IF valid = <<>>
        THEN [NotSent EXCEPT !.done = TRUE]
        ELSE IF send_media_group /\ Len(valid) > 1
        THEN [done |-> TRUE, ret |-> g.ret, delivered |-> g.delivered,
              photos_sent |-> IF g.ret THEN Len(valid) ELSE 0]
        ELSE [done |-> TRUE, ret |-> Cardinality(oks) = Len(valid),
              delivered |-> Cardinality(oks), photos_sent |-> Cardinality(oks)]

InitPhotos ==
    /\ InitRegistry
    /\ ModalIdle
    /\ RouterIdle
    /\ LookupIdle
    /\ ReportIdle
    /\ StartupIdle
    /\ ExtractIdle
    /\ PersistIdle
    /\ \E photos_data \in PhotoLists, mode \in BOOLEAN, fails \in FailPatterns :
           psend = [photos_data |-> photos_data, send_media_group |-> mode,
                    fails |-> fails, result |-> NotSent]

CallSendPhotos ==
    /\ ~psend.result.done
    /\ psend' = [psend EXCEPT !.result =
                     send_photos_with_caption_to_chat(psend.photos_data,
                                                      psend.send_media_group, psend.fails)]
    /\ UNCHANGED <<registry_vars, modal_vars, router_vars, lookup_vars, report_vars,
                   startup_vars, extract_vars, persist>>

NextPhotos == CallSendPhotos

SpecPhotos == InitPhotos /\ [][NextPhotos]_vars

----------------------------------------------------------------------------
(* Properties *)

IsCall(obs) == obs.op = "process_task"

(* C1: every identity key reaches success at most once, it is counted in    *)
(* tasks_processed once, and a call or discovery step for a key that is     *)
(* already processed opens no modal, saves nothing and sends nothing.       *)
C1_SuccessAtMostOnce ==
    /\ \A k \in Keys : success_count[k] <= 1
    /\ \A k \in Keys : success_count[k] = 1 <=> k \in processed_tasks
    /\ stats.tasks_processed = Cardinality({k \in Keys : success_count[k] >= 1})
    /\ (last.op # "none" /\ last.key \in processed_tasks /\ ~last.ret)
           => (last.clicks = 0 /\ last.saves = 0 /\ last.sends = 0)

C1_Witness ==
    /\ last.op = "skip"
    /\ check_count >= 2
    /\ success_count[last.key] = 1

(* C2: a process_task call whose extraction yields zero photos does not     *)
(* mark the task successful: processed_tasks and tasks_processed stay as    *)
(* they are, nothing is saved and nothing is sent.                          *)
C2_NoPhotosNoSuccess ==
    [][(IsCall(last') /\ last'.photos = 0)
           => /\ ~last'.ret
              /\ processed_tasks' = processed_tasks
              /\ stats'.tasks_processed = stats.tasks_processed
              /\ last'.saves = 0
              /\ last'.sends = 0]_vars

C2_Witness ==
    /\ IsCall(last)
    /\ last.is_retry
    /\ last.opened
    /\ last.photos = 0
    /\ last.path = "no_photos_retry"

(* C3: no identity key is in processed_tasks and in failed_tasks at once.   *)
C3_Disjoint == processed_tasks \cap FailedKeys(failed_tasks) = {}

C3_Witness ==
    /\ IsCall(last)
    /\ last.is_retry
    /\ last.ret
    /\ last.key \in processed_tasks
    /\ failed_tasks # <<>>

(* C4: processed_tasks only grows: no step removes a key from it.           *)
C4_AppendOnly == [][processed_tasks \subseteq processed_tasks']_vars

C4_Witness ==
    /\ processed_tasks # {}
    /\ stats.errors > 0
    /\ last_report_time > 0
    /\ dropped # {}

(* C5: once a key has been dropped from failed_tasks as permanently failed  *)
(* it is never processed again: it is not the subject of a later            *)
(* process_task call and it is in neither failed_tasks nor processed_tasks. *)
C5_PermanentIsTerminal ==
    \A k \in dropped :
        /\ k \notin FailedKeys(failed_tasks)
        /\ k \notin processed_tasks
        /\ ~(IsCall(last) /\ last.key = k)

(* C6: in a sweep every entry with attempts >= max_retry_attempts is        *)
(* counted once, is not reprocessed, and is out of failed_tasks when the    *)
(* sweep is over; only entries with attempts < max_retry_attempts are       *)
(* reprocessed.                                                             *)
C6_ExhaustedRemoved ==
    [][/\ (pc = "sweep" /\ IsCall(last'))
            => ~AttemptsExhausted(sweep_items[idx])
       /\ (InSweep /\ idx' = idx + 1 /\ AttemptsExhausted(sweep_items[idx]))
            => /\ stats'.tasks_failed_permanent = stats.tasks_failed_permanent + 1
               /\ ~IsCall(last')
       /\ (pc = "sweep" /\ pc' \in {"report", "sleep"})
            => \A i \in 1..Len(sweep_items) :
                   (i < idx /\ AttemptsExhausted(sweep_items[i]))
                       => sweep_items[i].key \notin FailedKeys(failed_tasks')]_vars

(* C7: a retry of the sweep that fails again, with one more attempt still   *)
(* below max_retry_attempts, leaves the entry in failed_tasks with attempts *)
(* increased by exactly 1.                                                  *)
C7_RetryFailureCounts ==
    [][(pc = "sweep" /\ IsCall(last') /\ last'.is_retry /\ ~last'.ret
            /\ last'.opened /\ last'.photos = 0
            /\ FailedAttempts(failed_tasks, last'.key) + 1 < max_retry_attempts)
           => /\ last'.key \in FailedKeys(failed_tasks')
              /\ FailedAttempts(failed_tasks', last'.key)
                     = FailedAttempts(failed_tasks, last'.key) + 1]_vars

(* C8: when the modal fails to open on every attempt the key is recorded in *)
(* failed_tasks: attempts incremented, last_seen set to the current time.   *)
C8_OpenFailureQueued ==
    [][(IsCall(last') /\ last'.clicks > 0 /\ ~last'.opened)
           => /\ last'.key \in FailedKeys(failed_tasks')
              /\ FailedAttempts(failed_tasks', last'.key)
                     = FailedAttempts(failed_tasks, last'.key) + 1
              /\ FailedGet(failed_tasks', last'.key).last_seen = now]_vars

(* C9: a sweep expires an entry for staleness only if discovery has not     *)
(* observed its task during the preceding hour: an entry whose task the     *)
(* discovery pass of the same check listed is not removed as stale.         *)
C9_StaleOnlyIfUnseen ==
    [][(InSweep /\ Len(tasks_to_remove') = Len(tasks_to_remove) + 1
            /\ tasks_to_remove'[Len(tasks_to_remove')].why = "stale")
           => tasks_to_remove'[Len(tasks_to_remove')].key \notin KeysOf(tasks)]_vars

FirstOpen(outcomes, n) == {i \in 1..n : outcomes[i] = "open"}

Min(S) == CHOOSE x \in S : \A y \in S : x <= y

(* C10: open_task_modal(element, n) clicks at most n times, returns True at *)
(* the first attempt whose indicator appears without clicking again, and    *)
(* returns False exactly when all n attempts fail.                          *)
C10_ModalBounded ==
    m_result.done =>
        LET opens == FirstOpen(m_outcomes, m_retries)
        IN  /\ m_result.clicks <= m_retries
            /\ m_result.ret <=> opens # {}
            /\ m_result.ret => m_result.clicks = Min(opens)
            /\ ~m_result.ret => m_result.clicks = m_retries

C10_Witness ==
    /\ m_result.done
    /\ m_result.ret
    /\ m_retries = 3
    /\ m_result.clicks = 2
    /\ m_outcomes[3] = "open"

Alternating(n) == [i \in 1..n |-> IF i % 2 = 1 THEN "click" ELSE "close"]

(* C11: in open_task_modal every failed attempt is followed by exactly one  *)
(* close before the next click or before returning False, and no close      *)
(* follows the successful click: success at attempt k has k-1 click-close   *)
(* cycles before it, failure of all n attempts issues n closes.             *)
C11_CloseAfterEachFailure ==
    m_result.done =>
        /\ m_result.ret =>
               /\ m_result.closes = m_result.clicks - 1
               /\ m_result.log = Alternating(2 * m_result.clicks - 1)
        /\ ~m_result.ret =>
               /\ m_result.closes = m_retries
               /\ m_result.log = Alternating(2 * m_retries)

C11_Witness ==
    /\ m_result.done
    /\ m_result.ret
    /\ m_retries = 3
    /\ m_outcomes[1] = "timeout"
    /\ m_outcomes[2] = "open"
    /\ m_result.log = <<"click", "close", "click">>

(* C12: whenever open_task_modal returned True inside process_task, a close *)
(* is issued before process_task returns, on every way out: zero photos on  *)
(* a first attempt and on a retry, a failed save, success, an exception.    *)
C12_CloseOnEveryExit ==
    /\ (IsCall(last) /\ last.opened) =>
           /\ last.path \in {"no_photos_first", "no_photos_retry", "save_failed",
                             "success", "exception"}
           /\ last.exit_closes >= 1
           /\ last.closes = (last.clicks - 1) + last.exit_closes
    /\ (IsCall(last) /\ ~last.opened) => last.exit_closes = 0

C12_Witness ==
    /\ IsCall(last)
    /\ last.opened
    /\ last.path = "save_failed"
    /\ last.exit_closes = 1

(* the words of a district, read without regard to case *)
WordsOf(d) == {LowerPiece(d.text[i]) : i \in 1..Len(d.text)}

IsMarked(d) == ~d.absent /\ "n/d" \in WordsOf(d)

Priority == <<"podolsk", "chekhov", "serpukhov", "pushchino", "protvino">>

ChannelOf(keyword) ==
    CASE keyword = "podolsk" -> "podolsk"
      [] keyword = "chekhov" -> "chekhov"
      [] OTHER -> "south"

Matches(d) == {i \in 1..Len(Priority) : Priority[i] \in WordsOf(d)}

Elements(seq) == {seq[i] : i \in 1..Len(seq)}

NoDuplicates(seq) == \A i, j \in 1..Len(seq) : i # j => seq[i] # seq[j]

(* C14: for a district that contains the marker N/D in any case,            *)
(* get_target_chats returns exactly the ids of the configured channels,     *)
(* each id once, whether or not the district also contains a keyword.       *)
C14_MarkerBroadcasts ==
    (route.done /\ IsMarked(district)) =>
        /\ Elements(route.chats) = {chat_ids[k] : k \in ChatKeySet} \ {""}
        /\ NoDuplicates(route.chats)

(* C15: for a district without the marker that contains a routing keyword,  *)
(* get_target_chats returns the one channel of the first keyword, in the    *)
(* order podolsk, chekhov, serpukhov, pushchino, protvino, that the         *)
(* district contains, or nothing when that channel is not configured.       *)
C15_FirstKeywordWins ==
    (route.done /\ ~district.absent /\ ~IsMarked(district) /\ Matches(district) # {}) =>
        LET first == Min(Matches(district))
            chat_id == chat_ids[ChannelOf(Priority[first])]
        IN  route.chats = IF chat_id # "" THEN <<chat_id>> ELSE <<>>

C15_Witness ==
    /\ route.done
    /\ district.text = <<"chekhov", "Podolsk">>
    /\ chat_ids["podolsk"] = ""
    /\ chat_ids["chekhov"] # ""
    /\ route.chats = <<>>

(* the rows whose key is related to the text: the key is inside the text or *)
(* the text is inside the key                                               *)
Related(table, text) ==
    {i \in 1..Len(table) : Contains(text, table[i].key) \/ Contains(table[i].key, text)}

(* C17: get_district_by_address returns the district of the row whose key   *)
(* equals the lower-cased, trimmed address when there is one; otherwise the *)
(* district of a row whose key contains the address or is contained in it   *)
(* (the first such row); otherwise, and for an empty address, nothing.      *)
C17_LookupOrder ==
    lookup_result.done =>
        LET table == address_district_map
            text == Strip(Lower(lookup_address.text))
            exact == {i \in 1..Len(table) : table[i].key = text}
        IN  IF lookup_address.absent \/ lookup_address.text = <<>>
            THEN ~lookup_result.found
            ELSE IF exact # {}
            THEN lookup_result.found /\ \E i \in exact : lookup_result.value = table[i].value
            ELSE IF Related(table, text) # {}
            THEN /\ lookup_result.found
                 /\ lookup_result.value = table[Min(Related(table, text))].value
            ELSE ~lookup_result.found

C17_Witness ==
    /\ lookup_result.done
    /\ lookup_address.text = <<Blank, "Podolsk">>
    /\ Len(address_district_map) = 2
    /\ address_district_map[1].key = <<"podolsk", "5">>
    /\ address_district_map[2].key = <<"podolsk">>
    /\ lookup_result.found
    /\ lookup_result.value = 2

Unroutable(d) == d.absent \/ d.text = <<>> \/ (~IsMarked(d) /\ Matches(d) = {})

(* C16: get_target_chats returns the empty sequence for an empty or absent  *)
(* district and for a district with neither the marker nor a keyword, and   *)
(* send_to_telegram then sends nothing to any channel.                      *)
C16_UnroutableSendsNothing ==
    /\ (route.done /\ Unroutable(district)) => route.chats = <<>>
    /\ (tg_last.op = "send_to_telegram" /\ Unroutable(tg_last.district)) =>
           /\ tg_last.targets = <<>>
           /\ tg_last.posts = <<>>
           /\ ~tg_last.ret
           /\ report_stats = NoReports

C16_Witness ==
    /\ tg_last.op = "send_to_telegram"
    /\ district.text = <<"okrug", "#">>
    /\ \A key \in ChatKeySet : chat_ids[key] # ""
    /\ tg_last.posts = <<>>

ConfiguredKeys(ids) == SelectSeq(ChatKeys, LAMBDA key : ids[key] # "")

(* C18: send_reports posts one message to every configured channel and none *)
(* to an unconfigured one, the "nothing processed" notice where nothing was *)
(* recorded; after any flush every accumulator is empty and                 *)
(* last_report_time is the time of the flush.                               *)
C18_FlushNotifiesAndResets ==
    [][tg_last'.op = "send_reports" =>
           LET keys == ConfiguredKeys(chat_ids)
               posts == tg_last'.posts
           IN  /\ Len(posts) = Len(keys)
               /\ \A i \in 1..Len(keys) :
                      /\ posts[i].chat_id = chat_ids[keys[i]]
                      /\ report_stats[keys[i]] = 0 => posts[i].kind = "nothing_processed"
               /\ report_stats' = NoReports
               /\ last_report_time' = now]_vars

C18_Witness ==
    /\ tg_last.op = "send_reports"
    /\ chat_ids["podolsk"] = ""
    /\ Len(tg_last.posts) = 2
    /\ \A i \in 1..2 : tg_last.posts[i].kind = "nothing_processed"
    /\ last_report_time > 0
    /\ report_stats = NoReports

(* C19: retry_failed_tasks called on an empty failure queue changes nothing: *)
(* processed_tasks, failed_tasks, the counters, the report accumulators and  *)
(* last_report_time stay as they are, no sweep begins, nothing is clicked,   *)
(* saved or sent.                                                            *)
C19_EmptySweepIsNoOp ==
    [][(tg_last'.op = "retry_failed_tasks" /\ failed_tasks = <<>>) =>
           /\ UNCHANGED <<processed_tasks, failed_tasks, stats, report_stats,
                          last_report_time>>
           /\ UNCHANGED <<pc, sweep_items, sweep_time, tasks_to_remove, last>>
           /\ tg_last'.posts = <<>>]_vars

C19_Witness ==
    /\ tg_last.op = "retry_failed_tasks"
    /\ failed_tasks = <<>>
    /\ report_stats # NoReports
    /\ now > last_report_time

OkPostsTo(posts, chat_id) ==
    Cardinality({i \in 1..Len(posts) : posts[i].chat_id = chat_id /\ posts[i].ok})

(* C20: the report accumulator of a channel grows only by sends to that     *)
(* channel that returned success; failed sends, unroutable tasks, calls     *)
(* that end before the send change nothing; only send_reports clears it.    *)
C20_AccumulatorLifecycle ==
    [][\A key \in ChatKeySet :
           /\ report_stats'[key] > report_stats[key] =>
                  /\ tg_last'.op = "send_to_telegram"
                  /\ report_stats'[key] - report_stats[key]
                         <= OkPostsTo(tg_last'.posts, chat_ids[key])
           /\ report_stats'[key] < report_stats[key] => tg_last'.op = "send_reports"
           /\ tg_last'.op = "process_task" => report_stats'[key] = report_stats[key]]_vars

C20_Witness ==
    /\ tg_last.op = "send_to_telegram"
    /\ Len(tg_last.posts) = 3
    /\ tg_last.posts[1].ok
    /\ ~tg_last.posts[2].ok
    /\ report_stats["podolsk"] = 1
    /\ report_stats["chekhov"] = 0

(* C13: a click on a stale reference does not make open_task_modal raise:   *)
(* each such click is a failed attempt followed by a close, and the call of *)
(* process_task ends at "open failed", not in the exception handler; and no *)
(* later call clicks a reference that has already raised on a click: a      *)
(* retry of such a task is made with a reference resolved again.            *)
C13_StaleIsRetriedFresh ==
    IsCall(last) =>
        /\ last.met_stale =>
               /\ last.path = "open_failed"
               /\ ~last.ret
               /\ last.clicks = DefaultModalRetries
               /\ last.closes = last.clicks
        /\ last.clicks > 0 => last.element # "raised"
        /\ last.replaced # "none" => last.element = "resolved"

C13_Witness ==
    /\ IsCall(last)
    /\ last.is_retry
    /\ last.replaced = "raised"
    /\ last.element = "resolved"
    /\ last.opened

TgCall == tg_last.op \in {"process_task", "send_to_telegram"}

(* the call extracted at least one photo and went on to save_task_data *)
Extracted == TgCall /\ tg_last.path \in {"save_failed", "success"}

AllSendsFailed ==
    /\ tg_last.posts # <<>>
    /\ \A i \in 1..Len(tg_last.posts) : ~tg_last.posts[i].ok

DeliveryFailed == stores.google = "fail" \/ AllSendsFailed

C22_ProcessedIsStoredLocally ==
    processed_tasks # {} => save_task_data(stores).local

(* C23: an interrupt that arrives while a task is in flight does not leave  *)
(* it mid-way: when the loop has stopped, a task whose modal was opened has *)
(* had its close issued.                                                    *)
C23_InterruptFinishesTask ==
    (pc = "stopped" /\ last.opened) => last.exit_closes >= 1

(* C24: when the loop stops, send_reports runs once more: every configured  *)
(* channel gets its final report, built from the counts recorded since the  *)
(* previous flush, the accumulators are cleared only then, and nothing      *)
(* follows the stop.                                                        *)
C24_FinalFlushOnStop ==
    [][/\ pc # "stopped"
       /\ pc' = "stopped" =>
              LET keys == ConfiguredKeys(chat_ids)
                  posts == tg_last'.posts
              IN  /\ tg_last'.op = "send_reports"
                  /\ Len(posts) = Len(keys)
                  /\ \A i \in 1..Len(keys) :
                         /\ posts[i].chat_id = chat_ids[keys[i]]
                         /\ report_stats[keys[i]] > 0 => posts[i].kind = "report"
                  /\ \A key \in ChatKeySet : report_stats[key] > 0 => chat_ids[key] # ""
                  /\ report_stats' = NoReports]_vars

C24_Witness ==
    /\ pc = "stopped"
    /\ tg_last.op = "send_reports"
    /\ Len(tg_last.posts) = 2
    /\ tg_last.posts[1].kind = "report"
    /\ tg_last.posts[2].kind = "nothing_processed"
    /\ report_stats = NoReports

(* C25: a failure inside a check never stops the loop.  A step that counts  *)
(* an error leaves the loop running: it stays where it was (the failure was *)
(* inside process_task) or goes to the sleep before the next check; a check *)
(* cut short before its report step has counted an error; and the loop      *)
(* stops only in a step that counts nothing and leaves the registry alone,  *)
(* the external interrupt.                                                  *)
C25_FailureNeverStopsLoop ==
    [][/\ stats'.errors > stats.errors =>
              /\ stats'.errors = stats.errors + 1
              /\ pc' \in {pc, "sleep"}
              /\ pc' # "stopped"
       /\ (pc \in {"idle", "discover", "sweep"} /\ pc' = "sleep") =>
              stats'.errors = stats.errors + 1
       /\ (pc # "stopped" /\ pc' = "stopped") =>
              /\ stats' = stats
              /\ processed_tasks' = processed_tasks
              /\ failed_tasks' = failed_tasks]_vars

C25_Witness ==
    /\ check_count = 3
    /\ pc = "discover"
    /\ tasks # <<>>
    /\ stats.errors = 1
    /\ stats.tasks_processed = 0
    /\ failed_tasks # <<>>

SetupFailed(inputs) ==
    inputs.config # "ok" \/ inputs.setup_driver # "ok" \/ inputs.login # "ok"

(* C26: a fatal setup failure aborts the start with no partial run.  With   *)
(* the configuration missing, the browser session unobtainable or the login *)
(* failed, the loop is never entered, no check runs, no start message is    *)
(* sent, the run does not report success, and a browser session that was    *)
(* created is closed.                                                       *)
C26_SetupFailureAbortsStart ==
    (startup.phase # "new" /\ SetupFailed(startup.inputs)) =>
        /\ startup.phase = "done"
        /\ ~startup.loop_entered
        /\ startup.check_count = 0
        /\ startup.greeted = 0
        /\ startup.ret \in {"false", "exit_1"}
        /\ startup.driver \in {"none", "closed"}
        /\ startup.inputs.config # "ok" => startup.driver = "none"

C26_Witness ==
    /\ startup.phase = "done"
    /\ startup.inputs.config = "ok"
    /\ startup.inputs.setup_driver = "ok"
    /\ startup.inputs.login = "rejected"
    /\ startup.inputs.bot
    /\ startup.driver = "closed"
    /\ ~startup.loop_entered

Decoded(images) == SelectSeq(images, LAMBDA image : image.form = "data_url")

Sizes(images) == [i \in 1..Len(images) |-> images[i].size]

(* C28: a decoded blob is discarded and counted in photos_failed exactly    *)
(* when it is smaller than 1024 bytes, a blob of at least 1024 bytes is     *)
(* appended and counted in photos_captured, and the filters applied before  *)
(* sending keep the same blobs.                                             *)
C28_PhotoThreshold ==
    (extract.done /\ ~extract.page.script_raises /\ ~extract.page.disk_fails) =>
        LET decoded == Sizes(Decoded(extract.page.images))
            large == SelectSeq(decoded, LAMBDA n : n >= 1024)
            small == SelectSeq(decoded, LAMBDA n : n < 1024)
            undecoded == Len(extract.page.images) - Len(decoded)
        IN  /\ extract.photos.photos_data = large
            /\ extract.photos.photos_captured = Len(large)
            /\ extract.page.images # <<>> =>
                   extract.photos.photos_failed = Len(small) + undecoded
            /\ valid_photos(decoded) = large
            /\ media_group_photos(decoded) = large

(* C29, as stated: check n reloads the page exactly when n is a multiple of 5 *)
C29_ReloadOnMultiplesOfFive ==
    (startup.phase = "running" /\ startup.check_count >= 1) =>
        (startup.reloaded <=> startup.check_count % 5 = 0)

(* C29, amended: check n reloads the page and returns to the routes tab     *)
(* exactly when n leaves the remainder 1 on division by 5: checks 1, 6, ... *)
C29_ReloadOnFirstOfFive ==
    (startup.phase = "running" /\ startup.check_count >= 1) =>
        (startup.reloaded <=> startup.check_count \in {1, 6, 11, 16})

C29_Witness ==
    /\ startup.phase = "running"
    /\ startup.check_count = 6
    /\ startup.reloaded

(* a sweep step on the entry at idx went on to the next entry *)
Visited == idx' = idx + 1 /\ pc' = "sweep"

(* the entry at idx was handed to process_task as a retry, or could not be   *)
(* found on the page again and was marked for removal                        *)
Reprocessed ==
    \/ /\ last'.op = "process_task"
       /\ last'.is_retry
       /\ last'.key = sweep_items[idx].key
    \/ /\ Len(tasks_to_remove') = Len(tasks_to_remove) + 1
       /\ tasks_to_remove'[Len(tasks_to_remove')] =
              [key |-> sweep_items[idx].key, why |-> "unresolved"]

SweepOrder ==
    /\ (pc # "sweep" /\ pc' = "sweep") =>
           /\ pc = "discover"
           /\ idx > Len(tasks)
           /\ failed_tasks # <<>>
           /\ sweep_items' = failed_tasks
           /\ idx' = 1
    /\ (pc = "discover" /\ pc' = "report") => failed_tasks = <<>>
    /\ (pc = "sweep" /\ pc' = "report") => idx > Len(sweep_items)
    /\ (InSweep /\ Visited /\ Retryable(sweep_items[idx])) => Reprocessed
    /\ (InSweep /\ Visited /\ ~Retryable(sweep_items[idx])) => last'.op = "none"

Unresolved(marks) ==
    {marks[i].key : i \in {j \in 1..Len(marks) : marks[j].why = "unresolved"}}

(* C32: in the sweep an entry whose reference is stale is re-resolved by    *)
(* task_id; found: the reference is replaced and the task is reprocessed as *)
(* a retry; not found or no task_id: the entry is removed from failed_tasks *)
(* without a process_task call and without a permanent-failure count.       *)
C32_StaleEntryReresolved ==
    [][/\ (pc = "sweep" /\ last'.replaced # "none") =>
              /\ last'.op = "process_task"
              /\ last'.is_retry
              /\ last'.key = sweep_items[idx].key
              /\ sweep_items[idx].task_info.task_id # NoneId
       /\ (pc = "sweep" /\ Unresolved(tasks_to_remove') # Unresolved(tasks_to_remove)
              /\ pc' = "sweep") =>
              /\ last' = NoCall
              /\ stats' = stats
              /\ processed_tasks' = processed_tasks
       /\ (pc = "sweep" /\ pc' \notin {"sweep", "stopped"}) =>
              Unresolved(tasks_to_remove) \cap FailedKeys(failed_tasks') = {}]_vars

(* C38: every entry a sweep has marked for removal (attempts exhausted,     *)
(* stale, or not re-resolvable) is out of failed_tasks when that sweep is   *)
(* over, also when an unexpected error on a later entry aborts the sweep.   *)
C38_MarkedEntriesRemoved ==
    [][(pc = "sweep" /\ pc' \in {"report", "sleep"}) =>
          \A i \in 1..Len(tasks_to_remove) :
              tasks_to_remove[i].key \notin FailedKeys(failed_tasks')]_vars

(* C36: in every reachable state tasks_processed equals the number of keys  *)
(* in processed_tasks, and tasks_retried never exceeds tasks_processed.     *)
C36_CountersMatchRegistry ==
    /\ stats.tasks_processed = Cardinality(processed_tasks)
    /\ stats.tasks_retried <= stats.tasks_processed

C36_Witness ==
    /\ Cardinality(processed_tasks) = 2
    /\ stats.tasks_retried = 1
    /\ IsCall(last)
    /\ last.is_retry
    /\ last.ret

(* C37: tasks_failed_permanent counts each permanently failed key once:     *)
(* outside a sweep the counter never exceeds the number of keys that were   *)
(* removed from failed_tasks as permanently failed.                         *)
C37_PermanentCountedOnRemoval ==
    pc # "sweep" => stats.tasks_failed_permanent <= Cardinality(dropped)

SameAddress(t, u) == t.address = u.address

(* C35: two listed tasks with the same address text and no task_id have one *)
(* key, and once one is processed the other is skipped by discovery in that *)
(* and every later check; two tasks with the same address and different     *)
(* task_ids have different keys, and processing one does not make discovery *)
(* skip the other: it is handed to process_task under its own key.          *)
C35_IdentityByIdAndAddress ==
    [][(pc = "discover" /\ idx <= Len(tasks) /\ pc' = "discover") =>
          LET t == tasks[idx]
              key == TaskKey(t.task_id, t.address)
          IN  \A u \in {Universe[i] : i \in 1..Len(Universe)} :
                  LET other == TaskKey(u.task_id, u.address)
                  IN  /\ (SameAddress(t, u) /\ t.task_id = NoneId /\ u.task_id = NoneId
                            /\ other \in processed_tasks)
                         => /\ last'.op = "skip"
                            /\ UNCHANGED <<processed_tasks, failed_tasks, stats>>
                      /\ (SameAddress(t, u) /\ t.task_id # u.task_id)
                         => /\ key # other
                            /\ (other \in processed_tasks /\ key \notin processed_tasks)
                                   => /\ last'.op = "process_task"
                                      /\ last'.key = key
                                      /\ last'.path # "already"]_vars

C35_Witness ==
    /\ check_count = 2
    /\ pc = "discover"
    /\ idx = 3
    /\ last.op = "skip"
    /\ last.key = TaskKey(NoneId, "B")
    /\ {TaskKey("101", "A"), TaskKey("102", "A")} \subseteq processed_tasks
    /\ stats.tasks_processed = 3

Written(result) == {r \in {result.google_row, result.csv_row} : r.written}

(* C33: the address lookup is applied before routing and before the rows    *)
(* are written: when the lookup sheet yields a district for the address,    *)
(* that district is in every written row and is the one get_target_chats    *)
(* is given; when it yields nothing, the extracted district is.             *)
C33_LookupBeforeRouting ==
    persist.result.done =>
        LET i == persist.inputs
            r == persist.result
            lk == get_district_by_address(i.table, [absent |-> FALSE, text |-> i.address])
            expected == IF lk.found /\ lk.value # <<>> THEN lk.value ELSE i.city_district
        IN  /\ \A row \in Written(r) : row.city_district = expected
            /\ r.send_called =>
                   /\ r.routed = expected
                   /\ r.targets = get_target_chats(i.chat_ids, AsDistrict(expected))

C33_Witness ==
    LET i == persist.inputs
        r == persist.result
        lk == get_district_by_address(i.table, [absent |-> FALSE, text |-> i.address])
    IN  /\ r.done
        /\ r.send_called
        /\ lk.found
        /\ lk.value # <<>>
        /\ lk.value # i.city_district
        /\ r.csv_row.written
        /\ r.google_row.written
        /\ r.routed = lk.value
        /\ r.targets # <<>>
        /\ r.targets # get_target_chats(i.chat_ids, AsDistrict(i.city_district))

(* C39: the "Telegram sent" column of the rows written for a task reflects  *)
(* the outcome of the task's send: sent when the send succeeded on at least *)
(* one channel, not sent when every send failed.                            *)
C39_StatusReflectsSend ==
    (persist.result.done /\ persist.result.send_called) =>
        \A row \in Written(persist.result) :
            row.telegram_sent = telegram_sent_status(TRUE, persist.result.send_ret)

(* C34: to one channel at most 10 photos of a task are sent, in the image   *)
(* batch mode and one by one, and photos_sent grows by exactly the number   *)
(* of photos delivered.                                                     *)
C34_AtMostTenPerChannel ==
    psend.result.done =>
        /\ psend.result.delivered <= 10
        /\ psend.result.photos_sent = psend.result.delivered

====
